---- MODULE Spec2Model ----
(***************************************************************************)
(* TPS-RRT* planner of libselfdriving (TPS_RRTstar.cpp) with the PTG       *)
(* queries it relies on.                                                   *)
(*                                                                         *)
(* Numbers.  Workspace coordinates are integers (metres on a lattice),     *)
(* headings are integers counting eighth turns (phi = q * pi/4), angles    *)
(* inside the PTG arithmetic are milliradians, distances are millimetres   *)
(* ("pseudo-metres" * 1000), normalized distances are in units of 1e-4.    *)
(* Every pose of the model has an even heading (a multiple of pi/2), which *)
(* makes every rotation exact; odd values only occur as bounding-box       *)
(* limits.                                                                 *)
(***************************************************************************)
EXTENDS Integers, Sequences, FiniteSets, TLC

VARIABLES
    pc,                     \* position of the plan() call
    in,                     \* PlannerInput of the current call
    params_,                \* TPS_RRTstar::params_
    tree,                   \* po.motionTree
    success,                \* po.success
    rrtIter,                \* loop counter of plan()
    local_obstacles_cache_, \* TPS_RRTstar::local_obstacles_cache_
    m_nav_dyn_state,        \* per PTG: the dynamic state last set
    qi,                     \* history: last pose returned by the sampler
    lastIter,               \* history: what the last iteration did
    abortKind,              \* history: why plan() threw
    samplesDrawn,           \* history: samples drawn in this call
    lastBranch,             \* history: the sampler that produced the last sample
    calls,                  \* history: plan() calls this planner has finished
    attempt,                \* loop counter of the sampler under way
    ptgCall,                \* the last PTG query and what it returned
    interp,                 \* the last interpolated path built for an edge
    tpObs,                  \* the last tp_obstacles_single_path call
    newton                  \* the Newton iteration of the PTG under way

vars == <<pc, in, params_, tree, success, rrtIter, local_obstacles_cache_,
          m_nav_dyn_state, qi, lastIter, abortKind, samplesDrawn, lastBranch,
          calls, attempt, ptgCall, interp, tpObs, newton>>

\* what the actions on one pure function leave alone
planVars == <<pc, in, params_, tree, success, rrtIter, local_obstacles_cache_,
              m_nav_dyn_state, qi, lastIter, abortKind, samplesDrawn,
              lastBranch, calls, attempt>>

\* what the actions of plan() as a whole leave alone
aux == <<calls, attempt, ptgCall, interp, tpObs, newton>>

----------------------------------------------------------------------------
(* Bounds of the model *)

MaxIter == 2

----------------------------------------------------------------------------
(* Arithmetic helpers *)

Abs(a) == IF a < 0 THEN -a ELSE a

Min(a, b) == IF a <= b THEN a ELSE b

Max(a, b) == IF a >= b THEN a ELSE b

RECURSIVE GCD(_, _)
GCD(a, b) == IF b = 0 THEN a ELSE GCD(b, a % b)

\* lrint(n/d), d > 0: round to nearest, ties to even
RoundDiv(n, d) ==
    LET f == n \div d
        r == n - f * d
    IN  IF 2 * r < d THEN f
        ELSE IF 2 * r > d THEN f + 1
        ELSE IF f % 2 = 0 THEN f ELSE f + 1

\* mrpt::sign: -1 for negatives, +1 otherwise (zero included)
sign(x) == IF x < 0 THEN -1 ELSE 1

PiMilli == 3142

\* atan2(Y, X) in milliradians, tabulated on reduced integer directions
Atan2Table ==
    <<-24, -7>> :> -1855 @@ <<-24, 7>> :> -1287 @@ <<-12, -5>> :> -1966 @@
    <<-12, 5>> :> -1176 @@ <<-8, -15>> :> -2652 @@ <<-8, 15>> :> -490 @@
    <<-4, -3>> :> -2214 @@ <<-4, 3>> :> -927 @@ <<-3, -4>> :> -2498 @@
    <<-3, 4>> :> -644 @@ <<-1, 0>> :> -1571 @@ <<0, -1>> :> 3142 @@
    <<1, 0>> :> 1571 @@ <<3, -4>> :> 2498 @@ <<3, 4>> :> 644 @@
    <<4, -3>> :> 2214 @@ <<4, 3>> :> 927 @@ <<8, -15>> :> 2652 @@
    <<8, 15>> :> 490 @@ <<12, -5>> :> 1966 @@ <<12, 5>> :> 1176 @@
    <<24, -7>> :> 1855 @@ <<24, 7>> :> 1287

Atan2Milli(Y, X) ==
    IF Y = 0 /\ X >= 0 THEN 0
    ELSE LET g == GCD(Abs(Y), Abs(X)) IN Atan2Table[<<Y \div g, X \div g>>]

\* mrpt::math::wrapTo2Pi on milliradians: [0, 2 pi)
wrapTo2Pi(a) == a % (2 * PiMilli)

\* mrpt::math::wrapToPi on eighth turns: [-pi, pi)
wrapToPi(q) == ((q + 4) % 8) - 4

\* cos and sin of an even number of eighth turns
CosQ(q) == CASE q % 8 = 0 -> 1 [] q % 8 = 4 -> -1 [] OTHER -> 0

SinQ(q) == CASE q % 8 = 2 -> 1 [] q % 8 = 6 -> -1 [] OTHER -> 0

----------------------------------------------------------------------------
(* Poses, twists, kinematic states *)

Pose(x, y, phi) == [x |-> x, y |-> y, phi |-> phi]

Twist(vx, vy, omega) == [vx |-> vx, vy |-> vy, omega |-> omega]

\* struct SE2_KinState: pose{0,0,0}, vel{0,0,0}
SE2_KinState(pose, vel) == [pose |-> pose, vel |-> vel]

\* TPose2D::operator+ : pose composition a (+) b
PoseCompose(a, b) ==
    Pose(a.x + b.x * CosQ(a.phi) - b.y * SinQ(a.phi),
         a.y + b.x * SinQ(a.phi) + b.y * CosQ(a.phi),
         wrapToPi(a.phi + b.phi))

\* TPose2D::inverseComposePoint / CPose2D::inverseComposeFrom on a point
InverseComposePoint(a, gx, gy) ==
    [x |-> (gx - a.x) * CosQ(a.phi) + (gy - a.y) * SinQ(a.phi),
     y |-> (gy - a.y) * CosQ(a.phi) - (gx - a.x) * SinQ(a.phi)]

\* TTwist2D::rotate(ang)
TwistRotate(t, q) ==
    Twist(t.vx * CosQ(q) - t.vy * SinQ(q),
          t.vx * SinQ(q) + t.vy * CosQ(q), t.omega)

----------------------------------------------------------------------------
(* PTGs.  A PTG object is a record [kind, K]; the generation parameters   *)
(* shared by the PTGs of the model are in PTGCfg (V_MAX in m/s, W_MAX in   *)
(* rad/s, lengths in millimetres).  With V_MAX/W_MAX = 2/3 and three       *)
(* alpha values (-2pi/3, 0, 2pi/3) the curved paths have radius 1.         *)

PTGCfg ==
    [V_MAX |-> 2, W_MAX |-> 3, turningRadiusReference |-> 100,
     refDistance |-> 5000, m_alphaValuesCount |-> 3]

DiffDrive_C(K) == [kind |-> "DiffDrive_C", K |-> K]

\* CParameterizedTrajectoryGenerator::alpha2index for alpha = (aNum/aDen)*pi,
\* aDen > 0: wrap to [-pi, pi), k = round(0.5*(N*(1 + alpha/pi) - 1)), clamped
alpha2index(aNum, aDen) ==
    LET N  == PTGCfg.m_alphaValuesCount
        wn == IF aNum >= aDen THEN aNum - 2 * aDen
              ELSE IF aNum < -aDen THEN aNum + 2 * aDen ELSE aNum
        k  == RoundDiv(N * (aDen + wn) - aDen, 2 * aDen)
    IN  IF k < 0 THEN 0 ELSE IF k >= N THEN N - 1 ELSE k

\* d / refDistance in units of 1e-4, and back (refDistance is a whole number
\* of metres)
NormalizeDist(d) == (d * 10) \div (PTGCfg.refDistance \div 1000)

DenormalizeDist(dn) == (dn * (PTGCfg.refDistance \div 1000)) \div 10

\* inverseMap_WS2TP with the straight-line test `x * K > 0`: x = 0 is no longer
\* on the path of K > 0
DiffDrive_C_inverseMap_WS2TP_ByProduct(K, x, y) ==
    LET V    == PTGCfg.V_MAX
        W    == PTGCfg.W_MAX
        trr  == PTGCfg.turningRadiusReference
        norm(d) == NormalizeDist(d)
    IN
    IF y # 0 THEN
        LET Rn    == x * x + y * y
            ay2   == 2 * Abs(y)
            \* fabs(R) - y for y > 0 and y + fabs(R) for y < 0: (x^2 - y^2)/(2|y|)
            theta == wrapTo2Pi(Atan2Milli((IF K > 0 THEN x ELSE -x) * ay2,
                                          x * x - y * y))
            \* d_out = theta * (fabs(R) + turningRadiusReference)
            d     == (theta * (Rn * 1000 + trr * ay2)) \div (ay2 * 1000)
            \* std::abs(R) < Rmin, Rmin = |V_MAX / W_MAX|
            clamp == Rn * W < V * ay2
            \* a = pi * V_MAX / (W_MAX * R), R replaced by Rmin*sign(R) on clamp
            aNum  == IF clamp THEN sign(y) ELSE V * 2 * y
            aDen  == IF clamp THEN 1 ELSE W * Rn
        IN  [exact |-> ~clamp, k |-> alpha2index(aNum, aDen), d |-> norm(d)]
    ELSE
        IF x * K > 0
        THEN [exact |-> TRUE, k |-> alpha2index(0, 1), d |-> norm(x * 1000)]
        ELSE [exact |-> FALSE, k |-> PTGCfg.m_alphaValuesCount - 1,
              d |-> norm(1000 * 1000)]

\* DiffDrive_C::inverseMap_WS2TP(x, y, k_out, d_out): [exact, k, d], d normalized
\* by refDistance.  R = Rn/(2y); the atan2 arguments are scaled by 2|y| > 0,
\* which leaves the angle unchanged.
DiffDrive_C_inverseMap_WS2TP(K, x, y) ==
    LET V    == PTGCfg.V_MAX
        W    == PTGCfg.W_MAX
        trr  == PTGCfg.turningRadiusReference
        norm(d) == NormalizeDist(d)
    IN
    IF y # 0 THEN
        LET Rn    == x * x + y * y
            ay2   == 2 * Abs(y)
            \* fabs(R) - y for y > 0 and y + fabs(R) for y < 0: (x^2 - y^2)/(2|y|)
            theta == wrapTo2Pi(Atan2Milli((IF K > 0 THEN x ELSE -x) * ay2,
                                          x * x - y * y))
            \* d_out = theta * (fabs(R) + turningRadiusReference)
            d     == (theta * (Rn * 1000 + trr * ay2)) \div (ay2 * 1000)
            \* std::abs(R) < Rmin, Rmin = |V_MAX / W_MAX|
            clamp == Rn * W < V * ay2
            \* a = pi * V_MAX / (W_MAX * R), R replaced by Rmin*sign(R) on clamp
            aNum  == IF clamp THEN sign(y) ELSE V * 2 * y
            aDen  == IF clamp THEN 1 ELSE W * Rn
        IN  [exact |-> ~clamp, k |-> alpha2index(aNum, aDen), d |-> norm(d)]
    ELSE
        IF sign(x) = sign(K)
        THEN [exact |-> TRUE, k |-> alpha2index(0, 1), d |-> norm(x * 1000)]
        ELSE [exact |-> FALSE, k |-> PTGCfg.m_alphaValuesCount - 1,
              d |-> norm(1000 * 1000)]

\* DiffDrive_C::PTG_IsIntoDomain
DiffDrive_C_PTG_IsIntoDomain(x, y) == TRUE

\* DiffDrive_C::ptgDiffDriveSteeringFunction: (v, w) of path k, with
\* alpha_k/pi = (2k + 1 - N)/N the centre of the k-th alpha bin
ptgDiffDriveSteeringFunction(K, k) ==
    LET N == PTGCfg.m_alphaValuesCount
    IN  [v |-> PTGCfg.V_MAX * sign(K),
         w |-> ((2 * k + 1 - N) * PTGCfg.W_MAX * sign(K)) \div N]

\* Path k of a DiffDrive_C PTG, sampled where it meets the lattice: the
\* straight path every metre, a curved path every quarter turn.
PathStepDist(k) ==
    IF 2 * k + 1 = PTGCfg.m_alphaValuesCount THEN 1000
    ELSE ((PiMilli \div 2) * (1000 + PTGCfg.turningRadiusReference)) \div 1000

\* number of lattice steps of path k within refDistance
getPathStepCount(k) == PTGCfg.refDistance \div PathStepDist(k)

\* getPathDist(k, step)
getPathDist(k, step) == step * PathStepDist(k)

\* getPathPose(k, step): pose in the frame of the path's origin
getPathPose(ptg, k, step) ==
    LET sw == ptgDiffDriveSteeringFunction(ptg.K, k)
        sv == sign(sw.v)
    IN  IF sw.w = 0 THEN Pose(sv * step, 0, 0)
        ELSE LET t == sign(sw.w)      \* +1 turns left, -1 turns right
                 c == sv * t          \* side of the centre of rotation
             IN  Pose(sv * SinQ(2 * step), c * (1 - CosQ(2 * step)),
                      2 * t * step)

\* getPathTwist(k, step): twist in the frame of the path's origin
getPathTwist(ptg, k, step) ==
    LET sw == ptgDiffDriveSteeringFunction(ptg.K, k)
        ph == getPathPose(ptg, k, step).phi
    IN  Twist(sw.v * CosQ(ph), sw.v * SinQ(ph), sw.w)

\* getPathStepForDist(k, dist, out_step): fails when path k cannot reach dist
getPathStepForDist(ptg, k, dist) ==
    IF dist < 0 \/ dist > PTGCfg.refDistance
    THEN [ok |-> FALSE, step |-> 0]
    ELSE [ok |-> TRUE, step |-> RoundDiv(dist, PathStepDist(k))]

\* isPointInsideRobotShape: the robot covers less than one lattice cell
isPointInsideRobotShape(x, y) == x = 0 /\ y = 0

\* initTPObstacleSingle(k, out): no collision within the horizon
initTPObstacleSingle(k) == PTGCfg.refDistance

\* updateTPObstacleSingle(ox, oy, k, out): shortest distance along path k at
\* which the robot reaches the obstacle point, folded into the running value
updateTPObstacleSingle(ptg, ox, oy, k, out) ==
    LET hits == {s \in 0..getPathStepCount(k) :
                    LET p == getPathPose(ptg, k, s)
                    IN  isPointInsideRobotShape(ox - p.x, oy - p.y)}
    IN  IF hits = {} THEN out
        ELSE Min(out, getPathDist(k, CHOOSE s \in hits : \A u \in hits : s <= u))

----------------------------------------------------------------------------
(* HolonomicBlend PTG.  Times are in ticks of 1e-4 s, speeds in mm/s,      *)
(* path lengths in 1e-4 mm (speed times ticks).  The PTG's dynamic state   *)
(* is a velocity of vi mm/s along the direction of the path asked for      *)
(* (vi < 0: against it), so that a t^2 + b t + c of the source is the      *)
(* square of vi + (vf - vi) t / T_ramp; expr_V evaluates to ptg.expr_V     *)
(* and expr_T_ramp to T_ramp_max.                                          *)

HolonomicBlend(expr_V) ==
    [kind |-> "HolonomicBlend", K |-> 0, expr_V |-> expr_V]

\* HolonomicBlend::loadDefaultParams: T_ramp_max = 0.9 s
T_ramp_max == 9000

\* HolonomicBlend::PATH_TIME_STEP = 10 ms
PATH_TIME_STEP == 100

\* V_MAX in mm/s
HolonomicBlend_V_MAX == PTGCfg.V_MAX * 1000

\* m_robotRadius in mm
m_robotRadius == 500

\* 1e-3 m in units of 1e-4 mm: `if (std::abs(err) < 1e-3) break;`
StepTolerance == 10000

\* floor of the square root of n >= 0
RECURSIVE ISqrtIn(_, _, _)
ISqrtIn(n, lo, hi) ==
    IF lo >= hi THEN lo
    ELSE IF ((lo + hi + 1) \div 2) * ((lo + hi + 1) \div 2) <= n
         THEN ISqrtIn(n, (lo + hi + 1) \div 2, hi)
         ELSE ISqrtIn(n, lo, ((lo + hi + 1) \div 2) - 1)

ISqrt(n) == ISqrtIn(n, 0, 46340)

\* internal_params_from_dir_and_dynstate: vf = |expr_V|
HolonomicBlend_vf(ptg) == Abs(ptg.expr_V)

\* sqrt(a t^2 + b t + c): the speed at time t of the ramp
HolonomicBlend_rampSpeed(vf, vi, t) ==
    Abs(vi + ((vf - vi) * t) \div T_ramp_max)

\* calc_trans_distance_t_below_Tramp_abc_numeric(T, a, b, c): trapezoidal
\* rule in NUM_STEPS = 20 steps over [0, T]
RECURSIVE calc_trans_distance_numeric_from(_, _, _, _, _)
calc_trans_distance_numeric_from(T, vf, vi, i, d) ==
    IF i > 20 THEN d
    ELSE calc_trans_distance_numeric_from(T, vf, vi, i + 1,
            d + (((i * T) \div 20 - ((i - 1) * T) \div 20)
                 * (HolonomicBlend_rampSpeed(vf, vi, ((i - 1) * T) \div 20)
                    + HolonomicBlend_rampSpeed(vf, vi, (i * T) \div 20)))
                \div 2)

calc_trans_distance_t_below_Tramp_abc(t, vf, vi) ==
    calc_trans_distance_numeric_from(t, vf, vi, 1, 0)

\* calc_trans_distance_t_below_Tramp(k2, k4, vxi, vyi, t): k2 = k4 = 0 when
\* vf = vi, b = c = 0 when vi = 0
calc_trans_distance_t_below_Tramp(vf, vi, t) ==
    IF vf # vi
    THEN IF vi = 0
         THEN ((((vf - vi) * t) \div T_ramp_max) * t) \div 2
         ELSE calc_trans_distance_t_below_Tramp_abc(t, vf, vi)
    ELSE Abs(vi) * t

\* HolonomicBlend::internal_getPathDist(step, T_ramp, vxf, vyf)
HolonomicBlend_internal_getPathDist(step, vf, vi) ==
    IF PATH_TIME_STEP * step < T_ramp_max
    THEN calc_trans_distance_t_below_Tramp(vf, vi, PATH_TIME_STEP * step)
    ELSE (PATH_TIME_STEP * step - T_ramp_max) * HolonomicBlend_V_MAX
         + calc_trans_distance_t_below_Tramp(vf, vi, T_ramp_max)

\* HolonomicBlend::getPathDist(k, step), in 1e-4 mm
HolonomicBlend_getPathDist(ptg, vi, k, step) ==
    HolonomicBlend_internal_getPathDist(step, HolonomicBlend_vf(ptg), vi)

\* the Newton loop of getPathStepForDist (case 3): [throws, t, converged],
\* converged when the loop left by `break`
RECURSIVE HolonomicBlend_stepNewton(_, _, _, _, _)
HolonomicBlend_stepNewton(vf, vi, dist, t, iters) ==
    LET Apply(err, diff) ==
            IF ~(diff > 0)
            THEN [throws |-> TRUE, t |-> t, converged |-> FALSE]
            ELSE IF Abs(err) < StepTolerance
            THEN [throws |-> FALSE, t |-> Max(t - err \div diff, 0),
                  converged |-> TRUE]
            ELSE HolonomicBlend_stepNewton(vf, vi, dist,
                    Max(t - err \div diff, 0), iters + 1)
    IN  IF ~(iters < 10)
        THEN [throws |-> FALSE, t |-> t, converged |-> FALSE]
        ELSE Apply(calc_trans_distance_t_below_Tramp_abc(t, vf, vi) - dist,
                   HolonomicBlend_rampSpeed(vf, vi, t))

\* the end of getPathStepForDist: out_step = round(t_solved / PATH_TIME_STEP)
\* when t_solved >= 0
HolonomicBlend_stepOf(throws, t_solved, converged) ==
    IF throws
    THEN [throws |-> TRUE, ok |-> FALSE, step |-> 0, converged |-> converged]
    ELSE IF t_solved >= 0
    THEN [throws |-> FALSE, ok |-> TRUE,
          step |-> RoundDiv(t_solved, PATH_TIME_STEP),
          converged |-> converged]
    ELSE [throws |-> FALSE, ok |-> FALSE, step |-> 0, converged |-> converged]

\* HolonomicBlend::getPathStepForDist(k, dist, out_step), dist in 1e-4 mm:
\* [throws, ok, step, converged]
HolonomicBlend_getPathStepForDist(ptg, vi, k, dist) ==
    LET OfNewton(r) == HolonomicBlend_stepOf(r.throws, r.t, r.converged) IN
    IF dist >= calc_trans_distance_t_below_Tramp(HolonomicBlend_vf(ptg), vi,
                                                 T_ramp_max)
    THEN HolonomicBlend_stepOf(FALSE,
            T_ramp_max
            + (dist - calc_trans_distance_t_below_Tramp(
                          HolonomicBlend_vf(ptg), vi, T_ramp_max))
              \div HolonomicBlend_V_MAX,
            TRUE)
    ELSE IF HolonomicBlend_vf(ptg) = vi
    \* case 1: t_solved = dist / V_MAX
    THEN HolonomicBlend_stepOf(FALSE, dist \div HolonomicBlend_V_MAX, TRUE)
    ELSE IF vi = 0
    \* case 2: t_solved = sqrt(2) / a^(1/4) * sqrt(dist), NaN for dist < 0
    THEN IF dist < 0 THEN HolonomicBlend_stepOf(FALSE, -1, TRUE)
         ELSE HolonomicBlend_stepOf(FALSE,
                ISqrt(((2 * dist) \div HolonomicBlend_vf(ptg)) * T_ramp_max),
                TRUE)
    \* case 3: Newton from t = 0.6 T_ramp
    ELSE OfNewton(
            HolonomicBlend_stepNewton(HolonomicBlend_vf(ptg), vi, dist,
                                      (T_ramp_max * 6) \div 10, 0))

\* HolonomicBlend::getPathStepCount(k) with no cached count: throws when the
\* step for refDistance cannot be solved, and ASSERT_(step > 0)
HolonomicBlend_getPathStepCount(ptg, vi, k) ==
    LET Of(r) ==
            IF r.throws \/ ~r.ok \/ ~(r.step > 0)
            THEN [throws |-> TRUE, ok |-> FALSE, step |-> 0]
            ELSE [throws |-> FALSE, ok |-> TRUE, step |-> r.step]
    IN  Of(HolonomicBlend_getPathStepForDist(ptg, vi, k,
                                             PTGCfg.refDistance * 10000))

\* HolonomicBlend::inverseMap_WS2TP_with_Tramp(x, y, ...): the outcomes of
\* the call.  ASSERT_(x != 0 || y != 0) throws at the zero offset; elsewhere
\* the Newton iteration either finds a solution with t >= 0 within 25
\* iterations (true) or does not (false): both are outcomes here.
HolonomicBlend_inverseMap_WS2TP_with_Tramp(x, y) ==
    IF ~(x # 0 \/ y # 0)
    THEN {[throws |-> TRUE, ok |-> FALSE]}
    ELSE {[throws |-> FALSE, ok |-> b] : b \in BOOLEAN}

\* HolonomicBlend::inverseMap_WS2TP
HolonomicBlend_inverseMap_WS2TP(x, y) ==
    HolonomicBlend_inverseMap_WS2TP_with_Tramp(x, y)

\* HolonomicBlend::PTG_IsIntoDomain
HolonomicBlend_PTG_IsIntoDomain(x, y) == HolonomicBlend_inverseMap_WS2TP(x, y)

----------------------------------------------------------------------------

\* a HolonomicBlend PTG whose dynamic state is vi mm/s along the path asked for
HolonomicBlendAt(expr_V, vi) ==
    [kind |-> "HolonomicBlend", K |-> 0, expr_V |-> expr_V, vi |-> vi]

\* 1000 * (cos, sin) of index2alpha(k), k = 0, 1, 2: -2pi/3, 0, 2pi/3
HolonomicBlend_dir(k) ==
    CASE k = 0 -> [x |-> -500, y |-> -866]
      [] k = 1 -> [x |-> 1000, y |-> 0]
      [] OTHER -> [x |-> -500, y |-> 866]

\* the times of the ramp, t in [0, 1.01 T_ramp], at which the robot centre has
\* advanced P along the path: roots of vi t + (vf - vi) t^2 / (2 T_ramp) = P,
\* sq the square root of the discriminant
HolonomicBlend_rampRoots(vf, vi, P) ==
    LET Of(A, sq) ==
            {t \in {(T_ramp_max * (sq - vi)) \div A,
                    (T_ramp_max * (-sq - vi)) \div A} :
                t >= 0 /\ t <= (101 * T_ramp_max) \div 100}
    IN  IF vf = vi
        THEN IF vi = 0 THEN {}
             ELSE {t \in {P \div vi} :
                      t >= 0 /\ t <= (101 * T_ramp_max) \div 100}
        ELSE IF vi * vi + ((2 * P) \div T_ramp_max) * (vf - vi) < 0 THEN {}
        ELSE Of(vf - vi,
                ISqrt(vi * vi + ((2 * P) \div T_ramp_max) * (vf - vi)))

\* the time t > T_ramp at which the centre has advanced P:
\* vf t + T_ramp / 2 (vi - vf) = P
HolonomicBlend_postRampTime(vf, vi, P) ==
    P \div vf + (T_ramp_max * (vf - vi)) \div (2 * vf)

\* the post-ramp choice between sol_t0 (far crossing) and sol_t1 (near one)
HolonomicBlend_postRampSol(sol_t0, sol_t1) ==
    IF sol_t0 < T_ramp_max /\ sol_t1 < T_ramp_max THEN -1
    ELSE IF sol_t0 < T_ramp_max /\ sol_t1 >= (99 * T_ramp_max) \div 100
    THEN sol_t1
    ELSE IF sol_t1 < T_ramp_max /\ sol_t0 >= (99 * T_ramp_max) \div 100
    THEN sol_t0
    ELSE IF sol_t1 >= (99 * T_ramp_max) \div 100
            /\ sol_t0 >= (99 * T_ramp_max) \div 100
    THEN Min(sol_t0, sol_t1)
    ELSE -1

\* the shortest time to collision, -1 for none; the robot's circle meets the
\* obstacle when the centre has advanced P1 (entering) or P2 (leaving)
HolonomicBlend_solT(vf, vi, P1, P2) ==
    LET Of(roots) ==
            IF roots # {} THEN CHOOSE t \in roots : \A u \in roots : t <= u
            ELSE HolonomicBlend_postRampSol(
                    HolonomicBlend_postRampTime(vf, vi, P2),
                    HolonomicBlend_postRampTime(vf, vi, P1))
    IN  Of(HolonomicBlend_rampRoots(vf, vi, P1)
              \cup HolonomicBlend_rampRoots(vf, vi, P2))

\* the transversed distance at sol_t, stored through
\* internal_TPObsDistancePostprocess (the running minimum), in mm
HolonomicBlend_storeObstacle(vf, vi, sol_t, out) ==
    IF sol_t < 0 THEN out
    ELSE IF sol_t < T_ramp_max
    THEN Min(out, calc_trans_distance_t_below_Tramp(vf, vi, sol_t) \div 10000)
    ELSE Min(out,
             ((sol_t - T_ramp_max) * HolonomicBlend_V_MAX
              + calc_trans_distance_t_below_Tramp(vf, vi, T_ramp_max))
             \div 10000)

\* HolonomicBlend::updateTPObstacleSingle(ox, oy, k, tp_obstacle_k), ox, oy in
\* mm; along: the obstacle's coordinate along the path, across: its distance
\* from the path's line, both in mm
HolonomicBlend_updateTPObstacleSingle(ptg, ox, oy, k, out) ==
    LET Along(vf, vi, along, across) ==
            IF across * across > m_robotRadius * m_robotRadius THEN out
            ELSE HolonomicBlend_storeObstacle(vf, vi,
                    HolonomicBlend_solT(vf, vi,
                        (along - ISqrt(m_robotRadius * m_robotRadius
                                       - across * across)) * 10000,
                        (along + ISqrt(m_robotRadius * m_robotRadius
                                       - across * across)) * 10000),
                    out)
    IN  Along(HolonomicBlend_vf(ptg), ptg.vi,
              (ox * HolonomicBlend_dir(k).x + oy * HolonomicBlend_dir(k).y)
                  \div 1000,
              (ox * HolonomicBlend_dir(k).y - oy * HolonomicBlend_dir(k).x)
                  \div 1000)

\* ptg.updateTPObstacleSingle(ox, oy, k, out) of the PTG at hand, ox, oy in m
ptg_updateTPObstacleSingle(ptg, ox, oy, k, out) ==
    IF ptg.kind = "HolonomicBlend"
    THEN HolonomicBlend_updateTPObstacleSingle(ptg, ox * 1000, oy * 1000, k,
                                               out)
    ELSE updateTPObstacleSingle(ptg, ox, oy, k, out)

\* updateNavDynamicState(ds): the PTG stores the state
updateNavDynamicState(dyn, ptgIdx, ds) == [dyn EXCEPT ![ptgIdx] = ds]

\* TNavDynamicState as plan() and draw_random_tps() fill it
NavDynamicState(node) ==
    [curVelLocal |-> TwistRotate(node.vel, -node.pose.phi),
     relTarget |-> Pose(1, 0, 0), targetRelSpeed |-> 1]

----------------------------------------------------------------------------
(* Motion tree (MotionPrimitivesTreeSE2): nodes is a map NodeId -> node,   *)
(* edges holds one record per inserted edge, keyed by the child's NodeId.  *)

NoParent == -1

EmptyTree == [nodes |-> <<>>, root |-> NoParent, edges |-> {}]

NodeIds(t) == DOMAIN t.nodes

MapPut(m, key, val) ==
    [i \in (DOMAIN m) \cup {key} |-> IF i = key THEN val ELSE m[i]]

\* next_free_node_ID(): NodeIds are dense, counted from 0; the maps of the
\* model are indexed from 1, so NodeId n is stored at index n + 1
next_free_node_ID(t) == Cardinality(NodeIds(t))

\* insert_root_node(id, state): no parent, no edge, cost-to-come 0
insert_root_node(t, id, state) ==
    [t EXCEPT !.nodes = MapPut(@, id + 1,
        [id |-> id, parentID |-> NoParent, pose |-> state.pose,
         vel |-> state.vel, cost_ |-> 0])]

\* the mutant of insert_node_and_edge: the child's cost-to-come forgets the
\* parent's
insert_node_and_edge_NoParentCost(t, parentId, childId, state, edge) ==
    [t EXCEPT
        !.nodes = MapPut(@, childId + 1,
            [id |-> childId, parentID |-> parentId, pose |-> state.pose,
             vel |-> state.vel, cost_ |-> edge.cost]),
        !.edges = @ \cup {[edge EXCEPT !.id = childId]}]

\* insert_node_and_edge(parent, child, state, edge): the child's cost-to-come
\* is the parent's plus the edge's cost
insert_node_and_edge(t, parentId, childId, state, edge) ==
    [t EXCEPT
        !.nodes = MapPut(@, childId + 1,
            [id |-> childId, parentID |-> parentId, pose |-> state.pose,
             vel |-> state.vel, cost_ |-> t.nodes[parentId + 1].cost_ + edge.cost]),
        !.edges = @ \cup {[edge EXCEPT !.id = childId]}]

NodeOf(t, id) == t.nodes[id + 1]

----------------------------------------------------------------------------
(* TP-space neighbour search *)

\* PoseDistanceMetric::cannotBeNearerThan(a, b, d): per-axis lower bound
cannotBeNearerThan(nodeState, query, d) ==
    \/ Abs(nodeState.pose.x - query.x) * 1000 > d
    \/ Abs(nodeState.pose.y - query.y) * 1000 > d

\* PoseDistanceMetric::distance(src, dst): the PTG inverse map at the offset of
\* dst in the frame of src; none unless the solution is exact; the distance is
\* de-normalized with refDistance
PoseDistance(ptg, nodeState, query) ==
    LET rel == InverseComposePoint(nodeState.pose, query.x, query.y)
        r   == DiffDrive_C_inverseMap_WS2TP(ptg.K, rel.x, rel.y)
    IN  [has_value |-> r.exact,
         distance  |-> DenormalizeDist(r.d),
         trajIndex |-> r.k]

\* std::multimap::emplace: after the entries whose key is not larger
RECURSIVE MultimapEmplace(_, _)
MultimapEmplace(m, e) ==
    IF m = <<>> \/ m[Len(m)].key <= e.key THEN Append(m, e)
    ELSE Append(MultimapEmplace(SubSeq(m, 1, Len(m) - 1), e), m[Len(m)])

\* the (node, PTG) pairs in the order of the two loops of find_nodes_within_ball
NodePtgPair(t, ptgs, i) ==
    [nodeId |-> i \div Len(ptgs), ptgIdx |-> i % Len(ptgs)]

\* one pass of the inner loop body of find_nodes_within_ball for the pair
\* (node, PTG) on acc = [throws, closestNodes]
find_nodes_step(t, query, maxDistance, ptgs, pr, acc) ==
    LET node == NodeOf(t, pr.nodeId)
        ret  == PoseDistance(ptgs[pr.ptgIdx + 1], node, query)
    IN  IF cannotBeNearerThan(node, query, maxDistance) THEN acc
        ELSE IF ~ret.has_value THEN acc
        ELSE IF ~(ret.distance > 0) THEN [acc EXCEPT !.throws = TRUE]
        ELSE IF ret.distance > maxDistance THEN acc
        ELSE [acc EXCEPT !.closestNodes = MultimapEmplace(@,
                [key |-> ret.distance, nodeId |-> pr.nodeId,
                 ptgIdx |-> pr.ptgIdx, trajIdx |-> ret.trajIndex,
                 trajDist |-> ret.distance])]

\* find_nodes_within_ball, from pair i on; the loops end when the assertion
\* throws
RECURSIVE find_nodes_from(_, _, _, _, _, _)
find_nodes_from(t, query, maxDistance, ptgs, i, acc) ==
    IF acc.throws \/ i >= Cardinality(NodeIds(t)) * Len(ptgs) THEN acc
    ELSE find_nodes_from(t, query, maxDistance, ptgs, i + 1,
            find_nodes_step(t, query, maxDistance, ptgs,
                            NodePtgPair(t, ptgs, i), acc))

\* TPS_RRTstar::find_nodes_within_ball(tree, query, maxDistance, trs)
find_nodes_within_ball(t, query, maxDistance, ptgs) ==
    find_nodes_from(t, query, maxDistance, ptgs, 0,
                    [throws |-> FALSE, closestNodes |-> <<>>])

----------------------------------------------------------------------------
(* Obstacles: a point cloud is a sequence of points [x, y] *)

\* TPS_RRTstar::transform_pc_square_clipping(inMap, asSeenFrom, MAX_DIST_XY)
RECURSIVE transform_pc_square_clipping(_, _, _)
transform_pc_square_clipping(inMap, asSeenFrom, MAX_DIST_XY) ==
    IF inMap = <<>> THEN <<>>
    ELSE
        LET g    == Head(inMap)
            rest == transform_pc_square_clipping(Tail(inMap), asSeenFrom,
                                                 MAX_DIST_XY)
        IN  IF \/ Abs(g.x - asSeenFrom.x) * 1000 > MAX_DIST_XY
               \/ Abs(g.y - asSeenFrom.y) * 1000 > MAX_DIST_XY
            THEN rest
            ELSE <<InverseComposePoint(asSeenFrom, g.x, g.y)>> \o rest

\* TPS_RRTstar::tp_obstacles_single_path(k, localObstacles, ptg)
RECURSIVE tp_obstacles_from(_, _, _, _)
tp_obstacles_from(k, localObstacles, ptg, out) ==
    IF localObstacles = <<>> THEN out
    ELSE tp_obstacles_from(k, Tail(localObstacles), ptg,
            ptg_updateTPObstacleSingle(ptg, Head(localObstacles).x,
                                       Head(localObstacles).y, k, out))

\* the running value left at its initialiser 0, initTPObstacleSingle skipped
tp_obstacles_single_path_FromZero(k, localObstacles, ptg) ==
    tp_obstacles_from(k, localObstacles, ptg, 0)

tp_obstacles_single_path(k, localObstacles, ptg) ==
    tp_obstacles_from(k, localObstacles, ptg, initTPObstacleSingle(k))

\* TPS_RRTstar::cached_local_obstacles(tree, nodeID, globalObstacles,
\* MAX_XY_DIST): [cache, obs]
cached_local_obstacles(cache, t, nodeID, globalObstacles, MAX_XY_DIST) ==
    LET node == NodeOf(t, nodeID)
    IN  IF nodeID \in DOMAIN cache /\ cache[nodeID].globalNodePose = node.pose
        THEN [cache |-> cache, obs |-> cache[nodeID].obs]
        ELSE LET obs == transform_pc_square_clipping(globalObstacles,
                            node.pose, MAX_XY_DIST)
             IN  [cache |-> MapPut(cache, nodeID,
                        [globalNodePose |-> node.pose, obs |-> obs]),
                  obs |-> obs]

\* TPS_RRTstar::cost_path_segment(edge)
cost_path_segment(edge) == edge.ptgDist

----------------------------------------------------------------------------
(* plan(): sanity checks, sampling, candidate evaluation *)

\* static bool within_bbox(p, max, min)
within_bbox(p, max, min) ==
    /\ p.x < max.x /\ p.y < max.y /\ p.phi < max.phi
    /\ p.x > min.x /\ p.y > min.y /\ p.phi > min.phi

RECURSIVE MaxRefDistance(_)
MaxRefDistance(ptgs) ==
    IF ptgs = <<>> THEN 0
    ELSE Max(PTGCfg.refDistance, MaxRefDistance(Tail(ptgs)))

\* SanityChecks without the test of the goal pose
SanityChecks_NoGoalCheck(inp) ==
    /\ inp.ptgsInitialized
    /\ inp.worldBboxMin # inp.worldBboxMax
    /\ within_bbox(inp.stateStart.pose, inp.worldBboxMax, inp.worldBboxMin)
    /\ MaxRefDistance(inp.ptgs) > 0

\* the ASSERT_s at the entry of plan()
SanityChecks(inp) ==
    /\ inp.ptgsInitialized
    /\ inp.worldBboxMin # inp.worldBboxMax
    /\ within_bbox(inp.stateStart.pose, inp.worldBboxMax, inp.worldBboxMin)
    /\ within_bbox(inp.stateGoal.pose, inp.worldBboxMax, inp.worldBboxMin)
    /\ MaxRefDistance(inp.ptgs) > 0

\* kdTreeClosestPoint2D({q.x, q.y}) followed by q.inverseComposePoint(closestObs)
ClosestObsWrtRobot(obstacles, q) ==
    LET d2(i) == (obstacles[i].x - q.x) * (obstacles[i].x - q.x)
               + (obstacles[i].y - q.y) * (obstacles[i].y - q.y)
        c == CHOOSE i \in DOMAIN obstacles :
                \A j \in DOMAIN obstacles : d2(i) <= d2(j)
    IN  InverseComposePoint(q, obstacles[c].x, obstacles[c].y)

\* selfdriving::obstaclePointCollides(p, ptgs) and, for one PTG,
\* ptg->isPointInsideRobotShape(p.x, p.y)
obstaclePointCollides(pt) == isPointInsideRobotShape(pt.x, pt.y)

\* values rng.drawUniform(0, 1) takes in the model, in halves: 0, 0.5, 1
UniformDraws == {0, 1, 2}

\* headings drawn by rng.drawUniform(bbMin.phi, bbMax.phi) in the model
PhiDraws(inp) ==
    {h \in {0, 2} : inp.worldBboxMin.phi <= h /\ h <= inp.worldBboxMax.phi}

\* tps_out_of_bbox without the two tests of the heading
tps_out_of_bbox_NoPhi(q, inp) ==
    \/ q.x < inp.worldBboxMin.x \/ q.y < inp.worldBboxMin.y
    \/ q.x > inp.worldBboxMax.x \/ q.y > inp.worldBboxMax.y

\* the bounding-box test of draw_random_tps: TRUE when q is out of the
\* allowed space
tps_out_of_bbox(q, inp) ==
    \/ q.x < inp.worldBboxMin.x \/ q.y < inp.worldBboxMin.y
    \/ q.phi < inp.worldBboxMin.phi \/ q.x > inp.worldBboxMax.x
    \/ q.y > inp.worldBboxMax.y \/ q.phi > inp.worldBboxMax.phi

\* draw_random_euclidean: the poses one attempt can draw, and its verdict
EuclideanDraws(inp) ==
    {Pose(x, y, h) : x \in inp.worldBboxMin.x .. inp.worldBboxMax.x,
                     y \in inp.worldBboxMin.y .. inp.worldBboxMax.y,
                     h \in PhiDraws(inp)}

EuclideanAccepts(inp, q) ==
    ~obstaclePointCollides(ClosestObsWrtRobot(inp.obstacles, q))

\* draw_random_tps: what one attempt can draw (node, PTG, trajectory index,
\* distance between minStepLength and maxStepLength), and what it makes of it
TpsDraws(inp, par, t) ==
    [nodeIdx : 0 .. Cardinality(NodeIds(t)) - 1,
     ptgIdx : 0 .. Len(inp.ptgs) - 1,
     trajIdx : 0 .. PTGCfg.m_alphaValuesCount - 1,
     trajDist : {par.minStepLength, par.maxStepLength}]

TpsPose(inp, t, a) ==
    PoseCompose(NodeOf(t, a.nodeIdx).pose,
        getPathPose(inp.ptgs[a.ptgIdx + 1], a.trajIdx,
            getPathStepForDist(inp.ptgs[a.ptgIdx + 1], a.trajIdx,
                               a.trajDist).step))

TpsAccepts(inp, t, a) ==
    /\ getPathStepForDist(inp.ptgs[a.ptgIdx + 1], a.trajIdx, a.trajDist).ok
    /\ ~tps_out_of_bbox(TpsPose(inp, t, a), inp)
    /\ ~obstaclePointCollides(
            ClosestObsWrtRobot(inp.obstacles, TpsPose(inp, t, a)))

\* the PTG dynamic states a run of draw_random_tps attempts can leave: every
\* attempt updates its PTG; `last` is the accepted attempt, or none
TpsDynStates(inp, t, dyn, failed, last) ==
    {d \in [DOMAIN dyn ->
              {dyn[p] : p \in DOMAIN dyn}
              \cup {NavDynamicState(NodeOf(t, a.nodeIdx)) : a \in failed \cup last}] :
        \A p \in DOMAIN dyn :
            IF \E a \in last : a.ptgIdx + 1 = p
            THEN \A a \in last : d[p] = NavDynamicState(NodeOf(t, a.nodeIdx))
            ELSE \/ d[p] = dyn[p]
                 \/ \E a \in failed :
                        /\ a.ptgIdx + 1 = p
                        /\ d[p] = NavDynamicState(NodeOf(t, a.nodeIdx))}

\* draw_random_free_pose(p): every outcome [thrown, pose, dyn, branch] of one
\* call; branch names the sampler taken.
\* A sampler whose attempt can fail may fail maxAttempts times in a row.
maxAttempts == 1000000

draw_random_free_pose(inp, par, t, dyn) ==
    LET goal == {[thrown |-> FALSE, pose |-> inp.stateGoal.pose, dyn |-> dyn,
                  branch |-> "goal"] :
                    u \in {v \in UniformDraws : v < par.goalBias}}
        other == {v \in UniformDraws : ~(v < par.goalBias)}
        eucl ==
            {[thrown |-> FALSE, pose |-> q, dyn |-> dyn,
              branch |-> "euclidean"] :
                q \in {r \in EuclideanDraws(inp) : EuclideanAccepts(inp, r)}}
            \cup {[thrown |-> TRUE, pose |-> inp.stateGoal.pose, dyn |-> dyn,
                   branch |-> "euclidean"] :
                q \in {r \in EuclideanDraws(inp) : ~EuclideanAccepts(inp, r)}}
        failed == {a \in TpsDraws(inp, par, t) : ~TpsAccepts(inp, t, a)}
        tps ==
            UNION {{[thrown |-> FALSE, pose |-> TpsPose(inp, t, a), dyn |-> d,
                     branch |-> "tps"] :
                        d \in TpsDynStates(inp, t, dyn, failed, {a})} :
                    a \in TpsDraws(inp, par, t) \ failed}
            \cup IF failed = {} THEN {}
                 ELSE {[thrown |-> TRUE, pose |-> inp.stateGoal.pose, dyn |-> d,
                        branch |-> "tps"] :
                        d \in TpsDynStates(inp, t, dyn, failed, {})}
    IN  goal \cup (IF other = {} THEN {}
                   ELSE IF par.drawInTPS THEN tps ELSE eucl)

----------------------------------------------------------------------------
(* plan(): one iteration of the main loop *)

NoEdge == [has_value |-> FALSE]

\* CollisionFree with the comparison weakened: a motion that ends on the
\* obstacle is kept
CollisionFree_Gt(trajDist, freeDistance) == ~(trajDist > freeDistance)

\* CollisionFree without the comparison: every motion is kept
CollisionFree_Always(trajDist, freeDistance) == TRUE

\* `if (trajDist >= freeDistance) continue;`: TRUE when the motion is kept
CollisionFree(trajDist, freeDistance) == ~(trajDist >= freeDistance)

\* MoveEdgeSE2_TPS tentativeEdge, with its cost.  The h_ fields are history:
\* the free distance the candidate was checked against, the dynamic state
\* the PTG held and the local obstacles used when it was computed.
TentativeEdge(srcNode, cand, x_i, ds, freeDistance, ptgState, localObstacles) ==
    LET e == [id            |-> NoParent,
              parentId      |-> cand.nodeId,
              ptgDist       |-> cand.trajDist,
              ptgIndex      |-> cand.ptgIdx,
              ptgPathIndex  |-> cand.trajIdx,
              ptgSpeedScale |-> ds.targetRelSpeed,
              stateFrom     |-> SE2_KinState(srcNode.pose, srcNode.vel),
              stateTo       |-> x_i,
              cost          |-> 0,
              h_freeDistance |-> freeDistance,
              h_dynState     |-> ptgState,
              h_localObstacles |-> localObstacles]
    IN  [e EXCEPT !.cost = cost_path_segment(e)]

\* BetterThanBest that also replaces the best candidate on equal cost
BetterThanBest_OrEqual(best, newTentativeCost) ==
    ~best.has_value \/ newTentativeCost <= best.cost

\* `if (!bestCost.has_value() || newTentativeCost < *bestCost)`
BetterThanBest(best, newTentativeCost) ==
    ~best.has_value \/ newTentativeCost < best.cost

\* the body of the loop over closeNodes for the entry c; st = [cache, dyn, best]
candidate_step(c, t, inp, MAX_XY_DIST, st) ==
    LET lo      == cached_local_obstacles(st.cache, t, c.nodeId,
                                          inp.obstacles, MAX_XY_DIST)
        srcNode == NodeOf(t, c.nodeId)
        ptg     == inp.ptgs[c.ptgIdx + 1]
        ds      == NavDynamicState(srcNode)
        dyn1    == updateNavDynamicState(st.dyn, c.ptgIdx + 1, ds)
        freeDistance == tp_obstacles_single_path(c.trajIdx, lo.obs, ptg)
        st1     == [st EXCEPT !.cache = lo.cache, !.dyn = dyn1]
        stepRes == getPathStepForDist(ptg, c.trajIdx, c.trajDist)
        reconstrRelPose == getPathPose(ptg, c.trajIdx, stepRes.step)
        relTwist == getPathTwist(ptg, c.trajIdx, stepRes.step)
        x_i     == SE2_KinState(PoseCompose(srcNode.pose, reconstrRelPose),
                                TwistRotate(relTwist, srcNode.pose.phi))
        edge    == TentativeEdge(srcNode, c, x_i, ds, freeDistance,
                                 dyn1[c.ptgIdx + 1], lo.obs)
        newTentativeCost == srcNode.cost_ + edge.cost
    IN  IF ~CollisionFree(c.trajDist, freeDistance) THEN st1
        ELSE IF ~stepRes.ok THEN st1
        ELSE IF BetterThanBest(st1.best, newTentativeCost)
             THEN [st1 EXCEPT !.best = [has_value |-> TRUE, edge |-> edge,
                                        cost |-> newTentativeCost]]
        ELSE st1

\* `for (const auto& tupl : closeNodes)`, from entry i on
RECURSIVE candidates_from(_, _, _, _, _, _)
candidates_from(closeNodes, i, t, inp, MAX_XY_DIST, st) ==
    IF i > Len(closeNodes) THEN st
    ELSE candidates_from(closeNodes, i + 1, t, inp, MAX_XY_DIST,
            candidate_step(closeNodes[i], t, inp, MAX_XY_DIST, st))

\* IterationResult that hangs the new node under the node inserted last
\* instead of under the best edge's parent
IterationResult_LastAsParent(t, cache, dyn, found, st) ==
    IF found.throws
    THEN [thrown |-> TRUE, outcome |-> "thrown", tree |-> t,
          cache |-> cache, dyn |-> dyn]
    ELSE IF found.closestNodes = <<>>
    THEN [thrown |-> FALSE, outcome |-> "empty", tree |-> t,
          cache |-> cache, dyn |-> dyn]
    ELSE IF ~st.best.has_value
    THEN [thrown |-> FALSE, outcome |-> "novalid", tree |-> t,
          cache |-> st.cache, dyn |-> st.dyn]
    ELSE [thrown |-> FALSE, outcome |-> "inserted",
          tree |-> insert_node_and_edge(t, next_free_node_ID(t) - 1,
                      next_free_node_ID(t), st.best.edge.stateTo,
                      st.best.edge),
          cache |-> st.cache, dyn |-> st.dyn]

\* IterationResult that empties edges_to_children before it inserts the edge
IterationResult_ClearsEdges(t, cache, dyn, found, st) ==
    IF found.throws
    THEN [thrown |-> TRUE, outcome |-> "thrown", tree |-> t,
          cache |-> cache, dyn |-> dyn]
    ELSE IF found.closestNodes = <<>>
    THEN [thrown |-> FALSE, outcome |-> "empty", tree |-> t,
          cache |-> cache, dyn |-> dyn]
    ELSE IF ~st.best.has_value
    THEN [thrown |-> FALSE, outcome |-> "novalid", tree |-> t,
          cache |-> st.cache, dyn |-> st.dyn]
    ELSE [thrown |-> FALSE, outcome |-> "inserted",
          tree |-> insert_node_and_edge([t EXCEPT !.edges = {}],
                      st.best.edge.parentId, next_free_node_ID(t),
                      st.best.edge.stateTo, st.best.edge),
          cache |-> st.cache, dyn |-> st.dyn]

\* IterationResult that takes the last NodeId in use for the new node
IterationResult_ReusesLastId(t, cache, dyn, found, st) ==
    IF found.throws
    THEN [thrown |-> TRUE, outcome |-> "thrown", tree |-> t,
          cache |-> cache, dyn |-> dyn]
    ELSE IF found.closestNodes = <<>>
    THEN [thrown |-> FALSE, outcome |-> "empty", tree |-> t,
          cache |-> cache, dyn |-> dyn]
    ELSE IF ~st.best.has_value
    THEN [thrown |-> FALSE, outcome |-> "novalid", tree |-> t,
          cache |-> st.cache, dyn |-> st.dyn]
    ELSE [thrown |-> FALSE, outcome |-> "inserted",
          tree |-> insert_node_and_edge(t, st.best.edge.parentId,
                      next_free_node_ID(t) - 1, st.best.edge.stateTo,
                      st.best.edge),
          cache |-> st.cache, dyn |-> st.dyn]

\* the end of the loop body, given the neighbours found and the state st the
\* loop over them left: [thrown, outcome, tree, cache, dyn]
IterationResult(t, cache, dyn, found, st) ==
    IF found.throws
    THEN [thrown |-> TRUE, outcome |-> "thrown", tree |-> t,
          cache |-> cache, dyn |-> dyn]
    ELSE IF found.closestNodes = <<>>
    THEN [thrown |-> FALSE, outcome |-> "empty", tree |-> t,
          cache |-> cache, dyn |-> dyn]
    ELSE IF ~st.best.has_value
    THEN [thrown |-> FALSE, outcome |-> "novalid", tree |-> t,
          cache |-> st.cache, dyn |-> st.dyn]
    ELSE [thrown |-> FALSE, outcome |-> "inserted",
          tree |-> insert_node_and_edge(t, st.best.edge.parentId,
                      next_free_node_ID(t), st.best.edge.stateTo,
                      st.best.edge),
          cache |-> st.cache, dyn |-> st.dyn]

IterationAfterSearch(t, inp, cache, dyn, found) ==
    IterationResult(t, cache, dyn, found,
        candidates_from(found.closestNodes, 1, t, inp,
            MaxRefDistance(inp.ptgs),
            [cache |-> cache, dyn |-> dyn, best |-> NoEdge]))

\* the body of the loop after the sample q was drawn
IterationBody(t, inp, par, cache, dyn, q) ==
    IterationAfterSearch(t, inp, cache, dyn,
        find_nodes_within_ball(t, q, par.initialSearchRadius, inp.ptgs))

----------------------------------------------------------------------------
(* Inputs of the model *)

ZeroTwist == Twist(0, 0, 0)

Point(x, y) == [x |-> x, y |-> y]

Starts == {Pose(0, 0, 0), Pose(-1, 0, 0), Pose(2, 0, 0)}

Goals == {Pose(1, 0, 0), Pose(0, 0, 0), Pose(100, 0, 0)}

\* <<worldBboxMin, worldBboxMax>>: +-pi in heading, +-pi/4 in heading, degenerate
Boxes ==
    {<<Pose(-1, -1, -4), Pose(2, 1, 4)>>,
     <<Pose(-1, -1, -1), Pose(2, 1, 1)>>,
     <<Pose(0, 0, 0), Pose(0, 0, 0)>>}

Clouds == {<<Point(9, 9)>>, <<Point(1, 0)>>}

PTGLists == {<<DiffDrive_C(1)>>, <<DiffDrive_C(1), DiffDrive_C(-1)>>}

PlannerInputs ==
    {[stateStart |-> SE2_KinState(s, ZeroTwist),
      stateGoal |-> SE2_KinState(g, ZeroTwist),
      ptgs |-> l, ptgsInitialized |-> i, obstacles |-> c,
      worldBboxMin |-> b[1], worldBboxMax |-> b[2]] :
        s \in Starts, g \in Goals, l \in PTGLists, i \in BOOLEAN,
        c \in Clouds, b \in Boxes}
    \cup
    \* a robot that only drives backwards, in free space
    {[stateStart |-> SE2_KinState(Pose(0, 0, 0), ZeroTwist),
      stateGoal |-> SE2_KinState(Pose(1, 0, 0), ZeroTwist),
      ptgs |-> <<DiffDrive_C(-1)>>, ptgsInitialized |-> TRUE,
      obstacles |-> <<Point(9, 9)>>,
      worldBboxMin |-> Pose(-1, -1, -4), worldBboxMax |-> Pose(2, 1, 4)]}

\* TPS_RRTstar::params_ (goalBias in halves, lengths in millimetres)
PlannerParams ==
    [maxIterations : {MaxIter},
     initialSearchRadius : {0, 2000},
     goalBias : {0, 1, 2},
     drawInTPS : BOOLEAN,
     minStepLength : {1000},
     maxStepLength : {2000}]

\* no PTG query has been made yet
NoPtgCall ==
    [fn |-> "none", ptg |-> [kind |-> "none", K |-> 0],
     arg |-> [vi |-> 0, x |-> 0, y |-> 0, k |-> 0, dist |-> 0, step |-> 0],
     throws |-> FALSE, ok |-> FALSE,
     out |-> [k |-> 0, d |-> 0, converged |-> TRUE]]

\* TNavDynamicState of a PTG nobody has updated yet
DefaultDynState ==
    [curVelLocal |-> ZeroTwist, relTarget |-> Pose(0, 0, 0),
     targetRelSpeed |-> 0]

----------------------------------------------------------------------------
(* The state machine *)

InitOn(params) ==
    /\ pc = "idle"
    /\ params_ \in params
    /\ in = [ptgs |-> <<>>]
    /\ tree = EmptyTree
    /\ success = FALSE
    /\ rrtIter = 0
    /\ local_obstacles_cache_ = <<>>
    /\ m_nav_dyn_state = <<>>
    /\ qi = Pose(0, 0, 0)
    /\ lastIter = "none"
    /\ abortKind = "none"
    /\ samplesDrawn = 0
    /\ lastBranch = "none"
    /\ calls = 0
    /\ attempt = 0
    /\ ptgCall = NoPtgCall
    /\ interp = [nSeg |-> 0, ptg_step |-> 0, steps |-> <<>>]
    /\ tpObs = [ptg |-> [kind |-> "none", K |-> 0], k |-> 0, obstacles |-> <<>>, out |-> 0]
    /\ newton = [fn |-> "none"]

Init == InitOn(PlannerParams)

\* plan(in) is called with one of the inputs and a sanity check fails: MRPT's
\* ASSERT_ throws
PlanRejectsOn(inputs) ==
    /\ pc = "idle"
    /\ \E inp \in inputs :
        /\ ~SanityChecks(inp)
        /\ in' = inp
    /\ pc' = "thrown"
    /\ abortKind' = "PrecondViolation"
    /\ UNCHANGED <<params_, tree, success, rrtIter, local_obstacles_cache_,
                   m_nav_dyn_state, qi, lastIter, samplesDrawn, lastBranch,
                   aux>>

PlanRejects == PlanRejectsOn(PlannerInputs)

\* PlanRoot with the goal state in the place of the start state
PlanRoot_GoalAsRoot(inp) ==
    [insert_root_node(EmptyTree, next_free_node_ID(EmptyTree), inp.stateGoal)
        EXCEPT !.root = next_free_node_ID(EmptyTree), !.edges = {}]

\* po.motionTree, new in every call, after the root was inserted and
\* edges_to_children cleared
PlanRoot(inp) ==
    [insert_root_node(EmptyTree, next_free_node_ID(EmptyTree), inp.stateStart)
        EXCEPT !.root = next_free_node_ID(EmptyTree), !.edges = {}]

\* plan(in) is called with one of the inputs and reaches its loop
PlanStartsOn(inputs) ==
    /\ pc = "idle"
    /\ \E inp \in inputs :
        /\ SanityChecks(inp)
        /\ in' = inp
        /\ tree' = PlanRoot(inp)
        /\ m_nav_dyn_state' = [p \in DOMAIN inp.ptgs |-> DefaultDynState]
    /\ pc' = "loop"
    /\ rrtIter' = 0
    /\ success' = FALSE
    /\ UNCHANGED <<params_, local_obstacles_cache_, qi, lastIter, abortKind,
                   samplesDrawn, lastBranch, aux>>

\* the sampler threw: THROW_EXCEPTION("Could not draw collision-free ...")
SamplerThrows(smp) ==
    /\ pc' = "thrown"
    /\ abortKind' = "SamplingExhaustion"
    /\ lastIter' = "thrown"
    /\ lastBranch' = smp.branch
    /\ m_nav_dyn_state' = smp.dyn
    /\ UNCHANGED <<tree, rrtIter, local_obstacles_cache_, qi, samplesDrawn>>

\* the loop body ran on the sample with the result r
IterationEnds(smp, r) ==
    /\ qi' = smp.pose
    /\ lastBranch' = smp.branch
    /\ samplesDrawn' = samplesDrawn + 1
    /\ lastIter' = r.outcome
    /\ tree' = r.tree
    /\ local_obstacles_cache_' = r.cache
    /\ m_nav_dyn_state' = r.dyn
    /\ pc' = IF r.thrown THEN "thrown" ELSE pc
    /\ abortKind' = IF r.thrown THEN "AssertionFailed" ELSE abortKind
    /\ rrtIter' = IF r.thrown THEN rrtIter ELSE rrtIter + 1

\* one iteration of `for (rrtIter = 0; rrtIter < maxIterations; rrtIter++)`
PlanIteration ==
    /\ pc = "loop"
    /\ rrtIter < params_.maxIterations
    /\ \E smp \in draw_random_free_pose(in, params_, tree, m_nav_dyn_state) :
        IF smp.thrown THEN SamplerThrows(smp)
        ELSE IterationEnds(smp,
                IterationBody(tree, in, params_, local_obstacles_cache_,
                              smp.dyn, smp.pose))
    /\ UNCHANGED <<in, params_, success, aux>>

\* the loop is over: `return po;` (po.success was never assigned)
PlanReturns ==
    /\ pc = "loop"
    /\ ~(rrtIter < params_.maxIterations)
    /\ pc' = "returned"
    /\ UNCHANGED <<in, params_, tree, success, rrtIter,
                   local_obstacles_cache_, m_nav_dyn_state, qi, lastIter,
                   abortKind, samplesDrawn, lastBranch, aux>>

PlanStarts == PlanStartsOn(PlannerInputs)

Next == PlanRejects \/ PlanStarts \/ PlanIteration \/ PlanReturns

Spec == Init /\ [][Next]_vars

----------------------------------------------------------------------------
(* Several plan() calls on one planner object.  po, with its tree, is a    *)
(* local of plan(); params_ and local_obstacles_cache_ are members and     *)
(* outlive the call.                                                       *)

MaxCalls == 2

CallInputs ==
    {[stateStart |-> SE2_KinState(s, ZeroTwist),
      stateGoal |-> SE2_KinState(g, ZeroTwist),
      ptgs |-> <<DiffDrive_C(1)>>, ptgsInitialized |-> i, obstacles |-> c,
      worldBboxMin |-> Pose(-1, -1, -4), worldBboxMax |-> Pose(2, 1, 4)] :
        s \in {Pose(0, 0, 0), Pose(1, 0, 0)}, g \in {Pose(1, 0, 0)},
        i \in BOOLEAN, c \in Clouds}

CallParams ==
    [maxIterations : {MaxIter}, initialSearchRadius : {2000}, goalBias : {1},
     drawInTPS : {FALSE}, minStepLength : {1000}, maxStepLength : {2000}]

InitCalls == InitOn(CallParams)

CallRejects == PlanRejectsOn(CallInputs)

CallStarts == PlanStartsOn(CallInputs)

\* the call is over and the caller is about to call plan() again
PlanAgain ==
    /\ pc \in {"returned", "thrown"}
    /\ calls < MaxCalls
    /\ calls' = calls + 1
    /\ pc' = "idle"
    /\ in' = [ptgs |-> <<>>]
    /\ tree' = EmptyTree
    /\ success' = FALSE
    /\ rrtIter' = 0
    /\ m_nav_dyn_state' = <<>>
    /\ qi' = Pose(0, 0, 0)
    /\ lastIter' = "none"
    /\ abortKind' = "none"
    /\ samplesDrawn' = 0
    /\ lastBranch' = "none"
    /\ UNCHANGED <<params_, local_obstacles_cache_, attempt, ptgCall,
                   interp, tpObs, newton>>

NextCalls ==
    CallRejects \/ CallStarts \/ PlanIteration \/ PlanReturns \/ PlanAgain

SpecCalls == InitCalls /\ [][NextCalls]_vars

----------------------------------------------------------------------------
(* The numeric queries of the PTGs: one query of a PTG whose dynamic state *)
(* has just been set.                                                      *)

PtgRange == 2

\* expr_V evaluates to V_MAX (the default) or to half of it
PTGs ==
    {HolonomicBlend(HolonomicBlend_V_MAX),
     HolonomicBlend(HolonomicBlend_V_MAX \div 2),
     DiffDrive_C(1), DiffDrive_C(-1)}

\* curVelLocal of the dynamic state along the path, in mm/s; a
\* DiffDrive_C query does not read it
PtgSpeeds(ptg) ==
    IF ptg.kind = "HolonomicBlend"
    THEN {0, HolonomicBlend_V_MAX \div 2, -5 * HolonomicBlend_V_MAX}
    ELSE {0}

\* offsets (x, y) in whole metres
PtgOffsets == (-PtgRange .. PtgRange) \X (-PtgRange .. PtgRange)

\* distances asked of getPathStepForDist, in millimetres
PtgDists == {-1000, 0, 500, 3800} \cup {1000 * i : i \in 1 .. PtgRange + 4}

\* steps asked of getPathDist
PtgSteps(ptg) ==
    IF ptg.kind = "HolonomicBlend"
    THEN {0, 45, 89} \cup {90 + 55 * i : i \in 0 .. PtgRange}
    ELSE 0 .. PtgRange

PtgArg(vi, x, y, k, dist, step) ==
    [vi |-> vi, x |-> x, y |-> y, k |-> k, dist |-> dist, step |-> step]

PtgOut(k, d, converged) == [k |-> k, d |-> d, converged |-> converged]

PtgCallOf(fn, ptg, arg, throws, ok, out) ==
    [fn |-> fn, ptg |-> ptg, arg |-> arg, throws |-> throws, ok |-> ok,
     out |-> out]

\* the query of a DiffDrive_C PTG returned r = [exact, k, d]
DiffDriveInverseOutcome(r) ==
    [throws |-> FALSE, ok |-> r.exact, out |-> PtgOut(r.k, r.d, TRUE)]

\* ptg.inverseMap_WS2TP(x, y, k, d)
QueryInverseMap ==
    /\ ptgCall.fn = "none"
    /\ \E ptg \in PTGs, xy \in PtgOffsets :
        \E r \in IF ptg.kind = "HolonomicBlend"
                 THEN {[throws |-> o.throws, ok |-> o.ok,
                        out |-> PtgOut(0, 0, o.ok)] :
                          o \in HolonomicBlend_inverseMap_WS2TP(xy[1], xy[2])}
                 ELSE {DiffDriveInverseOutcome(
                          DiffDrive_C_inverseMap_WS2TP(ptg.K, xy[1], xy[2]))} :
            ptgCall' = PtgCallOf("inverseMap_WS2TP", ptg,
                                 PtgArg(0, xy[1], xy[2], 0, 0, 0),
                                 r.throws, r.ok, r.out)
    /\ UNCHANGED <<planVars, interp, tpObs, newton>>

\* ptg.PTG_IsIntoDomain(x, y)
QueryIsIntoDomain ==
    /\ ptgCall.fn = "none"
    /\ \E ptg \in PTGs, xy \in PtgOffsets :
        \E r \in IF ptg.kind = "HolonomicBlend"
                 THEN HolonomicBlend_PTG_IsIntoDomain(xy[1], xy[2])
                 ELSE {[throws |-> FALSE,
                        ok |-> DiffDrive_C_PTG_IsIntoDomain(xy[1], xy[2])]} :
            ptgCall' = PtgCallOf("PTG_IsIntoDomain", ptg,
                                 PtgArg(0, xy[1], xy[2], 0, 0, 0),
                                 r.throws, r.ok, PtgOut(0, 0, TRUE))
    /\ UNCHANGED <<planVars, interp, tpObs, newton>>

\* the step query returned r
StepOutcome(r, converged) ==
    [throws |-> r.throws, ok |-> r.ok, out |-> PtgOut(0, r.step, converged)]

\* ptg.getPathStepForDist(k, dist, step)
QueryPathStepForDist ==
    /\ ptgCall.fn = "none"
    /\ \E ptg \in PTGs, k \in 0 .. PTGCfg.m_alphaValuesCount - 1,
          dist \in PtgDists :
        \E vi \in PtgSpeeds(ptg) :
            \E r \in IF ptg.kind = "HolonomicBlend"
                     THEN {StepOutcome(o, o.converged) :
                             o \in {HolonomicBlend_getPathStepForDist(
                                        ptg, vi, k, dist * 10000)}}
                     ELSE {StepOutcome(
                             [throws |-> FALSE,
                              ok |-> getPathStepForDist(ptg, k, dist).ok,
                              step |-> getPathStepForDist(ptg, k, dist).step],
                             TRUE)} :
                ptgCall' = PtgCallOf("getPathStepForDist", ptg,
                                     PtgArg(vi, 0, 0, k, dist, 0),
                                     r.throws, r.ok, r.out)
    /\ UNCHANGED <<planVars, interp, tpObs, newton>>

\* ptg.getPathStepCount(k)
QueryPathStepCount ==
    /\ ptgCall.fn = "none"
    /\ \E ptg \in PTGs, k \in 0 .. PTGCfg.m_alphaValuesCount - 1 :
        \E vi \in PtgSpeeds(ptg) :
            \E r \in IF ptg.kind = "HolonomicBlend"
                     THEN {StepOutcome(o, TRUE) :
                             o \in {HolonomicBlend_getPathStepCount(
                                        ptg, vi, k)}}
                     ELSE {StepOutcome(
                             [throws |-> FALSE, ok |-> TRUE,
                              step |-> getPathStepCount(k)], TRUE)} :
                ptgCall' = PtgCallOf("getPathStepCount", ptg,
                                     PtgArg(vi, 0, 0, k, 0, 0),
                                     r.throws, r.ok, r.out)
    /\ UNCHANGED <<planVars, interp, tpObs, newton>>

\* ptg.getPathDist(k, step): 1e-4 mm for HolonomicBlend, mm for DiffDrive_C
QueryPathDist ==
    /\ ptgCall.fn = "none"
    /\ \E ptg \in PTGs, k \in 0 .. PTGCfg.m_alphaValuesCount - 1 :
        \E vi \in PtgSpeeds(ptg), step \in PtgSteps(ptg) :
            ptgCall' = PtgCallOf("getPathDist", ptg,
                            PtgArg(vi, 0, 0, k, 0, step), FALSE, TRUE,
                            PtgOut(0,
                                IF ptg.kind = "HolonomicBlend"
                                THEN HolonomicBlend_getPathDist(ptg, vi, k,
                                                                step)
                                ELSE getPathDist(k, step),
                                TRUE))
    /\ UNCHANGED <<planVars, interp, tpObs, newton>>

InitPTG == InitOn(CallParams)

NextPTG ==
    \/ QueryInverseMap
    \/ QueryIsIntoDomain
    \/ QueryPathStepForDist
    \/ QueryPathStepCount
    \/ QueryPathDist

SpecPTG == InitPTG /\ [][NextPTG]_vars

----------------------------------------------------------------------------
(* draw_random_euclidean and draw_random_tps, one attempt of their loop    *)
(* per step.  goalBias is 0, so draw_random_free_pose always calls one of  *)
(* them; the tree holds the root.  The loops run to AttemptLimit, which    *)
(* stands for maxAttempts: nothing else in the loops depends on the value. *)

AttemptLimit == 3

\* the loop test with a 'less or equal'
AttemptsLeft_OrEqual(a) == a <= AttemptLimit

\* for (size_t attempt = 0; attempt < maxAttempts; attempt++)
AttemptsLeft(a) == a < AttemptLimit

SamplerInputs == {inp \in CallInputs : inp.ptgsInitialized}

\* maxStepLength 6000 exceeds refDistance: getPathStepForDist can fail
SamplerParams ==
    [maxIterations : {MaxIter}, initialSearchRadius : {2000}, goalBias : {0},
     drawInTPS : BOOLEAN, minStepLength : {1000},
     maxStepLength : {2000, 6000}]

InitSampler == InitOn(SamplerParams)

\* draw_random_free_pose(p) is called on a tree with its root and enters the
\* sampler that params_.drawInTPS selects
SamplerCalled ==
    /\ pc = "idle"
    /\ \E inp \in SamplerInputs :
        /\ in' = inp
        /\ tree' = PlanRoot(inp)
        /\ m_nav_dyn_state' = [p \in DOMAIN inp.ptgs |-> DefaultDynState]
    /\ pc' = "sampling"
    /\ attempt' = 0
    /\ lastBranch' = IF params_.drawInTPS THEN "tps" ELSE "euclidean"
    /\ UNCHANGED <<params_, success, rrtIter, local_obstacles_cache_, qi,
                   lastIter, abortKind, samplesDrawn, calls, ptgCall,
                   interp, tpObs, newton>>

\* the attempt was rejected: next round of the loop
AttemptRejected(why) ==
    /\ attempt' = attempt + 1
    /\ lastIter' = why
    /\ UNCHANGED <<pc, qi>>

\* return q
AttemptReturns(q) ==
    /\ pc' = "sampled"
    /\ qi' = q
    /\ lastIter' = "accepted"
    /\ UNCHANGED attempt

\* one round of the loop of draw_random_euclidean
EuclideanAttempt ==
    /\ pc = "sampling"
    /\ lastBranch = "euclidean"
    /\ AttemptsLeft(attempt)
    /\ \E q \in EuclideanDraws(in) :
        LET isCollision ==
                obstaclePointCollides(ClosestObsWrtRobot(in.obstacles, q))
        IN  IF ~isCollision THEN AttemptReturns(q)
            ELSE AttemptRejected("collision")
    /\ UNCHANGED <<in, params_, tree, success, rrtIter,
                   local_obstacles_cache_, m_nav_dyn_state, abortKind,
                   samplesDrawn, lastBranch, calls, ptgCall,
                   interp, tpObs, newton>>

\* one round of the loop of draw_random_tps
TpsAttempt ==
    /\ pc = "sampling"
    /\ lastBranch = "tps"
    /\ AttemptsLeft(attempt)
    /\ \E a \in TpsDraws(in, params_, tree) :
        LET node   == NodeOf(tree, a.nodeIdx)
            ptg    == in.ptgs[a.ptgIdx + 1]
            stepOk == getPathStepForDist(ptg, a.trajIdx, a.trajDist)
            q      == PoseCompose(node.pose,
                          getPathPose(ptg, a.trajIdx, stepOk.step))
            isCollision ==
                isPointInsideRobotShape(
                    ClosestObsWrtRobot(in.obstacles, q).x,
                    ClosestObsWrtRobot(in.obstacles, q).y)
        IN  /\ m_nav_dyn_state' =
                  updateNavDynamicState(m_nav_dyn_state, a.ptgIdx + 1,
                                        NavDynamicState(node))
            /\ IF ~stepOk.ok THEN AttemptRejected("stepFailed")
               ELSE IF tps_out_of_bbox(q, in) THEN AttemptRejected("outOfBbox")
               ELSE IF ~isCollision THEN AttemptReturns(q)
               ELSE AttemptRejected("collision")
    /\ UNCHANGED <<in, params_, tree, success, rrtIter,
                   local_obstacles_cache_, abortKind, samplesDrawn,
                   lastBranch, calls, ptgCall,
                   interp, tpObs, newton>>

\* the loop is over: THROW_EXCEPTION("Could not draw collision-free random
\* pose!"), which plan() does not catch
SamplerExhausted ==
    /\ pc = "sampling"
    /\ ~AttemptsLeft(attempt)
    /\ pc' = "thrown"
    /\ abortKind' = "SamplingExhaustion"
    /\ UNCHANGED <<in, params_, tree, success, rrtIter,
                   local_obstacles_cache_, m_nav_dyn_state, qi, lastIter,
                   samplesDrawn, lastBranch, calls, attempt, ptgCall,
                   interp, tpObs, newton>>

NextSampler ==
    SamplerCalled \/ EuclideanAttempt \/ TpsAttempt \/ SamplerExhausted

SpecSampler == InitSampler /\ [][NextSampler]_vars

\* the sampler's loop keeps running once entered
FairSampler == SpecSampler /\ WF_vars(NextSampler)

----------------------------------------------------------------------------
(* The interpolated path plan() stores in a candidate edge, as the step    *)
(* indices handed to getPathPose: the sub-pose of step 0 is (0,0,0) and    *)
(* the sub-pose of ptg_step is reconstrRelPose.                            *)

MaxSeg == 3

MaxStep == 40

\* ip of plan(): step 0, then iStep = ((i + 1) * ptg_step) / (nSeg + 2) for
\* i = 0 .. nSeg - 1, then ptg_step
InterpolatedSteps(nSeg, ptg_step) ==
    <<0>> \o [i \in 1 .. nSeg |-> (i * ptg_step) \div (nSeg + 2)]
          \o <<ptg_step>>

\* plan() fills tentativeEdge.interpolatedPath for an edge of ptg_step steps
BuildInterpolatedPath ==
    /\ \E nSeg \in 0 .. MaxSeg, ptg_step \in 0 .. MaxStep :
        interp' = [nSeg |-> nSeg, ptg_step |-> ptg_step,
                   steps |-> IF nSeg > 0
                             THEN InterpolatedSteps(nSeg, ptg_step)
                             ELSE <<>>]
    /\ UNCHANGED <<planVars, ptgCall, tpObs, newton>>

SpecInterp == InitCalls /\ [][BuildInterpolatedPath]_vars

----------------------------------------------------------------------------
(* Properties of plan() *)

Nodes(t) == {NodeOf(t, id) : id \in {i - 1 : i \in NodeIds(t)}}

NodeIdSet(t) == {n.id : n \in Nodes(t)}

\* following parent links from id reaches the root in at most fuel steps
RECURSIVE ReachesRoot(_, _, _)
ReachesRoot(t, id, fuel) ==
    IF id = t.root THEN TRUE
    ELSE IF fuel = 0 \/ id \notin NodeIdSet(t) THEN FALSE
    ELSE ReachesRoot(t, NodeOf(t, id).parentID, fuel - 1)

\* the nodes a breadth-first search from the root reaches within fuel levels
RECURSIVE ReachedFromRoot(_, _, _)
ReachedFromRoot(t, seen, fuel) ==
    IF fuel = 0 THEN seen
    ELSE ReachedFromRoot(t,
            seen \cup {e.id : e \in {f \in t.edges : f.parentId \in seen}},
            fuel - 1)

\* a coordinate of p is below the box's minimum or above its maximum
StrictlyOutside(p, inp) ==
    \/ p.x < inp.worldBboxMin.x \/ p.x > inp.worldBboxMax.x
    \/ p.y < inp.worldBboxMin.y \/ p.y > inp.worldBboxMax.y
    \/ p.phi < inp.worldBboxMin.phi \/ p.phi > inp.worldBboxMax.phi

\* min <= p < max in each of x, y, phi
InclusiveOpen(p, inp) ==
    /\ inp.worldBboxMin.x <= p.x /\ p.x < inp.worldBboxMax.x
    /\ inp.worldBboxMin.y <= p.y /\ p.y < inp.worldBboxMax.y
    /\ inp.worldBboxMin.phi <= p.phi /\ p.phi < inp.worldBboxMax.phi

\* the obstacles of inp as seen from node nodeId of t, computed afresh
LocalObstaclesOf(t, inp, nodeId) ==
    transform_pc_square_clipping(inp.obstacles, NodeOf(t, nodeId).pose,
                                 MaxRefDistance(inp.ptgs))

\* the free distance along path trajIdx of PTG ptgIdx from node nodeId
FreeDistanceFrom(t, inp, nodeId, ptgIdx, trajIdx) ==
    tp_obstacles_single_path(trajIdx, LocalObstaclesOf(t, inp, nodeId),
                             inp.ptgs[ptgIdx + 1])

\* C1: once plan() has inserted the root, the tree has exactly one node
\* without a parent, it is the node inserted first (NodeId 0) and tree.root
\* names it; every other node has exactly one edge keyed by its own NodeId,
\* and that edge starts at the node's parent; no edge is keyed by the root or
\* by a NodeId that is no node; following parent links from any node reaches
\* the root without revisiting a node; a search from the root along the
\* edges reaches every node.
C1_TreeShape ==
    pc # "idle" /\ tree # EmptyTree =>
        /\ {n.id : n \in {m \in Nodes(tree) : m.parentID = NoParent}} = {0}
        /\ tree.root = 0
        /\ \A n \in Nodes(tree) :
              n.id # tree.root =>
                  /\ Cardinality({e \in tree.edges : e.id = n.id}) = 1
                  /\ \A e \in tree.edges :
                        e.id = n.id => e.parentId = n.parentID
                  /\ n.parentID \in NodeIdSet(tree)
        /\ \A e \in tree.edges : e.id \in NodeIdSet(tree) \ {tree.root}
        /\ \A n \in Nodes(tree) :
              ReachesRoot(tree, n.id, Cardinality(Nodes(tree)) - 1)
        /\ ReachedFromRoot(tree, {tree.root}, Cardinality(Nodes(tree)))
              = NodeIdSet(tree)

\* plan() returned a tree of three nodes in which the parent of the node
\* inserted last is the root, not the node inserted before it
C1_Witness ==
    /\ pc = "returned"
    /\ Cardinality(Nodes(tree)) = 3
    /\ NodeOf(tree, 2).parentID = 0
    /\ NodeOf(tree, 1).parentID = 0

\* C2: in every state of plan(), for every edge (p -> c) of the tree the
\* cost-to-come of c is the cost-to-come of p plus the cost stored in the
\* edge inserted for c.
C2_CostToCome ==
    \A e \in tree.edges :
        NodeOf(tree, e.id).cost_ = NodeOf(tree, e.parentId).cost_ + e.cost

\* the tree holds an edge that starts at a node other than the root, whose
\* cost-to-come is not zero
C2_Witness ==
    \E e \in tree.edges :
        /\ e.parentId # tree.root
        /\ NodeOf(tree, e.parentId).cost_ > 0
        /\ e.cost > 0

\* C3: every node of the tree (root and children) has its pose (x, y, phi)
\* inside the workspace bounding box, here even with both limits included.
C3_NodesInsideBbox ==
    pc # "idle" =>
        \A n \in Nodes(tree) : ~StrictlyOutside(n.pose, in)

C5_OnlyTwoAborts ==
    pc = "thrown" => abortKind \in {"PrecondViolation", "SamplingExhaustion"}

\* the input fails one of the checks plan() is said to make at its entry
InvalidInput(inp) ==
    \/ ~inp.ptgsInitialized
    \/ inp.worldBboxMin = inp.worldBboxMax
    \/ StrictlyOutside(inp.stateStart.pose, inp)
    \/ StrictlyOutside(inp.stateGoal.pose, inp)

\* C6: when plan() is called with an uninitialized PTG set, with
\* worldBboxMin = worldBboxMax, or with a start or goal pose outside the
\* bounding box, the call throws at once: no root is inserted, no sample is
\* drawn, no iteration runs; and a call that ended on an entry check left
\* the tree empty.
C6_PrecondFailsAtEntry ==
    /\ pc # "idle" /\ InvalidInput(in) =>
          /\ pc = "thrown"
          /\ abortKind = "PrecondViolation"
    /\ abortKind = "PrecondViolation" =>
          /\ pc = "thrown"
          /\ tree = EmptyTree
          /\ samplesDrawn = 0
          /\ rrtIter = 0
          /\ lastIter = "none"
          /\ local_obstacles_cache_ = <<>>

\* plan() threw on a goal at (100, 0, 0), everything else being valid
C6_Witness ==
    /\ pc = "thrown"
    /\ abortKind = "PrecondViolation"
    /\ in.stateGoal.pose = Pose(100, 0, 0)
    /\ in.ptgsInitialized
    /\ in.worldBboxMin # in.worldBboxMax
    /\ ~StrictlyOutside(in.stateStart.pose, in)
    /\ in.stateStart.pose = Pose(0, 0, 0)

\* C7: the bounding box is inclusive-open: with the other entry checks
\* passing, plan() accepts the call exactly when the start and the goal pose
\* satisfy min <= p < max in x, y and phi; and a pose returned by the
\* TP-space sampler satisfies the same rule.
C7_InclusiveOpenBbox ==
    pc # "idle" /\ in.ptgsInitialized /\ in.worldBboxMin # in.worldBboxMax =>
        /\ abortKind # "PrecondViolation" <=>
              /\ InclusiveOpen(in.stateStart.pose, in)
              /\ InclusiveOpen(in.stateGoal.pose, in)
        /\ params_.drawInTPS /\ params_.goalBias = 0 /\ samplesDrawn > 0 =>
              InclusiveOpen(qi, in)

\* C8: when plan() has returned, success is true exactly when some node of
\* the tree is at the goal pose.
C8_SuccessIffGoalReached ==
    pc = "returned" =>
        (success <=> \E n \in Nodes(tree) : n.pose = in.stateGoal.pose)

\* the candidate c of the neighbour search passes the collision check and
\* the step-for-distance check
Survives(t, inp, c) ==
    /\ c.trajDist < FreeDistanceFrom(t, inp, c.nodeId, c.ptgIdx, c.trajIdx)
    /\ getPathStepForDist(inp.ptgs[c.ptgIdx + 1], c.trajIdx, c.trajDist).ok

\* the neighbour search found nothing, or nothing that survives
NoneSurvives(t, inp, found) ==
    /\ ~found.throws
    /\ \A i \in DOMAIN found.closestNodes :
          ~Survives(t, inp, found.closestNodes[i])

\* C9: an iteration on a sample for which the neighbour search returns no
\* candidate, or none that survives the collision and step-for-distance
\* checks, leaves the tree as it was (nodes, parents, costs, edges), and the
\* loop goes on: the iteration counter advances and the call does not end.
C9_SkippedIterationIsNoOp ==
    [][pc = "loop" /\ samplesDrawn' = samplesDrawn + 1
        /\ NoneSurvives(tree, in,
              find_nodes_within_ball(tree, qi', params_.initialSearchRadius,
                                     in.ptgs))
        => /\ tree' = tree
           /\ pc' = "loop"
           /\ rrtIter' = rrtIter + 1
           /\ abortKind' = abortKind]_vars

\* an iteration found a neighbour, the only motion to the sample ends on an
\* obstacle, and the loop went on with the tree it had
C9_Witness ==
    /\ pc = "loop"
    /\ lastIter = "novalid"
    /\ rrtIter = 1
    /\ tree.edges = {}
    /\ find_nodes_within_ball(tree, qi, params_.initialSearchRadius,
                              in.ptgs).closestNodes # <<>>

\* C10: with initialSearchRadius = 0, a call that passed the entry checks and
\* whose sampler did not give up never finds a candidate: the tree holds the
\* root only, the call does not throw, and it returns after maxIterations
\* iterations with success = false.
C10_ZeroRadiusOnlyRoot ==
    /\ pc # "idle"
    /\ params_.initialSearchRadius = 0
    /\ abortKind \notin {"PrecondViolation", "SamplingExhaustion"}
    => /\ pc \in {"loop", "returned"}
       /\ Cardinality(Nodes(tree)) = 1
       /\ tree.edges = {}
       /\ lastIter \in {"none", "empty"}
       /\ ~success
       /\ pc = "returned" => rrtIter = params_.maxIterations

\* C11: with goalBias = 1.0 every sample of every iteration is the goal pose
\* and comes from the goal branch, whatever value the uniform draw takes.
C11_GoalBiasOneAlwaysGoal ==
    pc # "idle" /\ params_.goalBias = 2 =>
        /\ lastBranch \in {"none", "goal"}
        /\ samplesDrawn > 0 => qi = in.stateGoal.pose

\* distances within [minStepLength, maxStepLength], every half metre
StepLengths(par) ==
    {d \in par.minStepLength .. par.maxStepLength : d % 500 = 0}

\* q is node pose (+) path pose for a node of t, a PTG, a path index and the
\* step of a distance within the step lengths
InTpsManifold(q, t, inp, par) ==
    \E n \in Nodes(t), p \in DOMAIN inp.ptgs,
       k \in 0 .. PTGCfg.m_alphaValuesCount - 1, d \in StepLengths(par) :
        /\ getPathStepForDist(inp.ptgs[p], k, d).ok
        /\ q = PoseCompose(n.pose,
                  getPathPose(inp.ptgs[p], k,
                      getPathStepForDist(inp.ptgs[p], k, d).step))

\* C12: with goalBias = 0 and drawInTPS, the sampler never takes the goal
\* branch, and every pose it returns is the pose of a node already in the
\* tree composed with the path pose of some PTG, path index and distance in
\* [minStepLength, maxStepLength], and lies within the bounding box (limits
\* included).
C12_TpsSamplesInManifold ==
    [][pc = "loop" /\ pc' # "returned"
        /\ params_.goalBias = 0 /\ params_.drawInTPS
        => /\ lastBranch' = "tps"
           /\ samplesDrawn' = samplesDrawn + 1 =>
                /\ InTpsManifold(qi', tree, in, params_)
                /\ ~StrictlyOutside(qi', in)]_vars

\* a TP-space sample was drawn from a tree of two nodes and a third node
\* was inserted
C12_Witness ==
    /\ params_.goalBias = 0
    /\ params_.drawInTPS
    /\ lastBranch = "tps"
    /\ samplesDrawn = 2
    /\ Cardinality(Nodes(tree)) = 3

C14_ParentBeforeChild ==
    [][/\ \A e \in tree'.edges : e.parentId < e.id
       /\ \A n \in Nodes(tree') \ Nodes(tree) :
             /\ \A m \in Nodes(tree) : m.id < n.id
             /\ n.parentID # NoParent => n.parentID \in NodeIdSet(tree)]_vars

\* node 2 was inserted under node 1
C14_Witness ==
    \E e \in tree.edges : e.id = 2 /\ e.parentId = 1

\* C15: from the moment plan() has passed its entry checks until it
\* returns or throws, in the first call and in every later call on the same
\* planner, NodeId 0 is in the tree and is its root, its kinematic state is
\* the input's stateStart, it has no parent and no edge, and its
\* cost-to-come is 0.
C15_RootIsStart ==
    (pc \in {"loop", "returned"})
        \/ (pc = "thrown" /\ abortKind # "PrecondViolation") =>
        /\ tree.root = 0
        /\ 0 \in NodeIdSet(tree)
        /\ NodeOf(tree, 0).id = 0
        /\ NodeOf(tree, 0).pose = in.stateStart.pose
        /\ NodeOf(tree, 0).vel = in.stateStart.vel
        /\ NodeOf(tree, 0).parentID = NoParent
        /\ NodeOf(tree, 0).cost_ = 0
        /\ \A e \in tree.edges : e.id # 0

\* a later call on the same planner, from another start pose than the node 0
\* the cache remembers, has returned with nodes under its root
C15_Witness ==
    /\ calls >= 1
    /\ pc = "returned"
    /\ Cardinality(Nodes(tree)) >= 2
    /\ in.stateStart.pose = Pose(1, 0, 0)
    /\ 0 \in DOMAIN local_obstacles_cache_

\* total cost of the candidate c: cost-to-come of its node plus the cost of
\* the edge, which is the PTG distance
CandidateCost(t, c) == NodeOf(t, c.nodeId).cost_ + c.trajDist

\* the edge e is the candidate of closeNodes that survives with the least
\* total cost and, among those of that cost, comes first
InsertedIsBest(t, inp, closeNodes, e) ==
    \E i \in DOMAIN closeNodes :
        /\ closeNodes[i].nodeId = e.parentId
        /\ closeNodes[i].ptgIdx = e.ptgIndex
        /\ closeNodes[i].trajIdx = e.ptgPathIndex
        /\ closeNodes[i].trajDist = e.ptgDist
        /\ Survives(t, inp, closeNodes[i])
        /\ \A j \in DOMAIN closeNodes :
              Survives(t, inp, closeNodes[j]) =>
                  /\ CandidateCost(t, closeNodes[j])
                        >= CandidateCost(t, closeNodes[i])
                  /\ j < i => CandidateCost(t, closeNodes[j])
                                 > CandidateCost(t, closeNodes[i])

\* C18: in an iteration that inserts a node, the edge inserted is the
\* surviving candidate of closeNodes with the minimum total cost (cost-to-come
\* of the parent plus edge cost), and among surviving candidates of that
\* minimum cost it is the first in the distance-ascending order of closeNodes.
C18_MinCostCandidateInserted ==
    [][pc = "loop" /\ tree'.edges # tree.edges =>
        \A e \in tree'.edges \ tree.edges :
            InsertedIsBest(tree, in,
                find_nodes_within_ball(tree, qi', params_.initialSearchRadius,
                                       in.ptgs).closestNodes, e)]_vars

\* node 2 at (2, 0) was inserted under node 1 at (1, 0) with total cost 2,
\* while the root, 2 away along a free straight path, offered the same total
C18_Witness ==
    /\ params_.initialSearchRadius = 2000
    /\ Cardinality(Nodes(tree)) = 3
    /\ NodeOf(tree, 1).pose = Pose(1, 0, 0)
    /\ NodeOf(tree, 2).pose = Pose(2, 0, 0)
    /\ NodeOf(tree, 2).parentID = 1
    /\ NodeOf(tree, 2).cost_ = 2000
    /\ FreeDistanceFrom(tree, in, 0, 0, 1) > 2000

\* the entries the search for q within r is to return: one for every node
\* and PTG that the lower bound does not prune and whose exact PTG distance d
\* exists with 0 < d <= r
ExpectedEntries(t, q, r, ptgs) ==
    {[key |-> PoseDistance(ptgs[p], n, q).distance, nodeId |-> n.id,
      ptgIdx |-> p - 1, trajIdx |-> PoseDistance(ptgs[p], n, q).trajIndex,
      trajDist |-> PoseDistance(ptgs[p], n, q).distance] :
        <<n, p>> \in {np \in Nodes(t) \X DOMAIN ptgs :
            /\ ~cannotBeNearerThan(np[1], q, r)
            /\ PoseDistance(ptgs[np[2]], np[1], q).has_value
            /\ PoseDistance(ptgs[np[2]], np[1], q).distance > 0
            /\ PoseDistance(ptgs[np[2]], np[1], q).distance <= r}}

\* found is the search's result: it returned, with the expected entries, each
\* once, in non-decreasing distance
FindsExactly(expected, found) ==
    /\ ~found.throws
    /\ {found.closestNodes[i] : i \in DOMAIN found.closestNodes} = expected
    /\ Len(found.closestNodes) = Cardinality(expected)
    /\ \A i, j \in DOMAIN found.closestNodes :
          i < j => found.closestNodes[i].key <= found.closestNodes[j].key

\* C19: the neighbour search of every iteration returns exactly one entry
\* (d, node, PTG, path index, d) for every node and PTG not pruned by
\* cannotBeNearerThan whose exact PTG distance d exists with 0 < d <= r, no
\* other entry, and its entries come in non-decreasing d.
C19_BallHoldsExactlyTheNear ==
    [][pc = "loop" /\ samplesDrawn' = samplesDrawn + 1 =>
        FindsExactly(
            ExpectedEntries(tree, qi', params_.initialSearchRadius, in.ptgs),
            find_nodes_within_ball(tree, qi', params_.initialSearchRadius,
                                   in.ptgs))]_vars

\* C20: in every state of plan() no two nodes of the tree have the same
\* pose.
C20_NoRepeatedPose ==
    \A n, m \in Nodes(tree) : n.id # m.id => n.pose # m.pose

\* C16: no numeric query of a HolonomicBlend or DiffDrive_C PTG
\* (inverseMap_WS2TP, PTG_IsIntoDomain, getPathStepForDist, getPathStepCount)
\* throws or fails an assertion, whatever its input, the zero offset
\* (0, 0) included: failures are reported by the return value.
C16_QueriesNeverThrow == ~ptgCall.throws

\* the pose q has passed the tests of the sampler under way: the collision
\* test and, in TP-space, the step-for-distance and bounding-box tests
PassedSamplerTests(q) ==
    /\ ~isPointInsideRobotShape(ClosestObsWrtRobot(in.obstacles, q).x,
                                ClosestObsWrtRobot(in.obstacles, q).y)
    /\ lastBranch = "tps" =>
        /\ ~StrictlyOutside(q, in)
        /\ \E a \in TpsDraws(in, params_, tree) :
              /\ getPathStepForDist(in.ptgs[a.ptgIdx + 1], a.trajIdx,
                                    a.trajDist).ok
              /\ q = TpsPose(in, tree, a)

\* C17: a call of draw_random_euclidean or draw_random_tps ends within the
\* attempt limit: every round of its loop either returns a pose that passed
\* the collision test (in TP-space also the step-for-distance and
\* bounding-box tests) or is rejected and counts as one attempt, whatever
\* rejected it; once the limit is reached the call throws the sampling
\* exhaustion error; and the call does end.
C17_SamplersEndWithinLimit ==
    /\ [][pc = "sampling" =>
            \/ /\ pc' = "sampled"
               /\ attempt < AttemptLimit
               /\ attempt' = attempt
               /\ PassedSamplerTests(qi')
            \/ /\ pc' = "sampling"
               /\ attempt < AttemptLimit
               /\ attempt' = attempt + 1
               /\ lastIter' \in {"stepFailed", "outOfBbox", "collision"}
            \/ /\ pc' = "thrown"
               /\ attempt = AttemptLimit
               /\ abortKind' = "SamplingExhaustion"]_vars
    /\ (pc = "sampling" ~> pc \in {"sampled", "thrown"})

\* draw_random_tps threw after AttemptLimit attempts, the last of which failed
\* the step-for-distance test
C17_Witness ==
    /\ pc = "thrown"
    /\ abortKind = "SamplingExhaustion"
    /\ lastBranch = "tps"
    /\ attempt = AttemptLimit
    /\ lastIter = "stepFailed"

\* C30: a call of plan() that passed its entry checks and whose sampler never
\* ran out of attempts ends by returning after exactly maxIterations
\* iterations, with between 1 and 1 + maxIterations nodes and one edge less
\* than nodes.
C30_RunsAllIterations ==
    (/\ pc \in {"returned", "thrown"}
     /\ abortKind \notin {"PrecondViolation", "SamplingExhaustion"})
    => /\ pc = "returned"
       /\ rrtIter = params_.maxIterations
       /\ Cardinality(Nodes(tree)) >= 1
       /\ Cardinality(Nodes(tree)) <= 1 + params_.maxIterations
       /\ Cardinality(tree.edges) = Cardinality(Nodes(tree)) - 1

\* the obstacle points within the square of half-side maxDist (millimetres)
\* around the pose, in the frame of the pose
PointsInSquare(globalObstacles, pose, maxDist) ==
    {InverseComposePoint(pose, globalObstacles[i].x, globalObstacles[i].y) :
        i \in {j \in DOMAIN globalObstacles :
                /\ Abs(globalObstacles[j].x - pose.x) * 1000 <= maxDist
                /\ Abs(globalObstacles[j].y - pose.y) * 1000 <= maxDist}}

\* C21: whatever calls came before on this planner, cached_local_obstacles
\* returns for a node, the global obstacles of the call under way and
\* MAX_XY_DIST the points of those obstacles within MAX_XY_DIST of the node's
\* pose on both axes, in the node's frame: what transform_pc_square_clipping
\* computes afresh.
C21_CacheEqualsFreshTransform ==
    pc = "loop" =>
        \A n \in Nodes(tree) :
            LET got == cached_local_obstacles(local_obstacles_cache_, tree,
                           n.id, in.obstacles, MaxRefDistance(in.ptgs)).obs
            IN  {got[i] : i \in DOMAIN got}
                    = PointsInSquare(in.obstacles, n.pose,
                                     MaxRefDistance(in.ptgs))

\* C25: with renderPathInterpolatedSegments = n > 0 the interpolated path of
\* an edge has n + 2 sub-poses, the first at step 0, the last at step
\* ptg_step, and the steps of consecutive sub-poses are evenly spaced: any
\* two gaps differ by integer rounding only.
C25_InterpolatedEvenly ==
    interp.nSeg > 0 =>
        /\ Len(interp.steps) = interp.nSeg + 2
        /\ interp.steps[1] = 0
        /\ interp.steps[Len(interp.steps)] = interp.ptg_step
        /\ \A i, j \in 1 .. Len(interp.steps) - 1 :
              Abs((interp.steps[i + 1] - interp.steps[i])
                  - (interp.steps[j + 1] - interp.steps[j])) <= 1

\* the last PTG query was fn on a PTG of this kind
IsPtgCall(fn, kind) == ptgCall.fn = fn /\ ptgCall.ptg.kind = kind

\* |R| = (x^2 + y^2) / (2 |y|) is below R_min = |V_MAX / W_MAX|
BelowMinRadius(x, y) ==
    (x * x + y * y) * PTGCfg.W_MAX < 2 * Abs(y) * PTGCfg.V_MAX

\* C24: DiffDrive_C::inverseMap_WS2TP returns exact = false exactly when
\* y # 0 and |R| < R_min (k is then that of R clamped to R_min with the sign
\* of R), or y = 0 and sign(x) # sign(K) (k is then the last index, d the
\* sentinel 1e3 / refDistance); for y = 0 and sign(x) = sign(K) it returns
\* k = alpha2index(0) and d = x / refDistance.
C24_InexactExactlyOnClampOrBehind ==
    IsPtgCall("inverseMap_WS2TP", "DiffDrive_C") =>
        /\ ~ptgCall.throws
        /\ ~ptgCall.ok <=>
              \/ ptgCall.arg.y # 0 /\ BelowMinRadius(ptgCall.arg.x,
                                                     ptgCall.arg.y)
              \/ ptgCall.arg.y = 0
                    /\ sign(ptgCall.arg.x) # sign(ptgCall.ptg.K)
        /\ (ptgCall.arg.y # 0 /\ ~ptgCall.ok) =>
              ptgCall.out.k = alpha2index(sign(ptgCall.arg.y), 1)
        /\ (ptgCall.arg.y = 0 /\ ~ptgCall.ok) =>
              /\ ptgCall.out.k = PTGCfg.m_alphaValuesCount - 1
              /\ ptgCall.out.d = NormalizeDist(1000 * 1000)
        /\ (ptgCall.arg.y = 0 /\ ptgCall.ok) =>
              /\ ptgCall.out.k = alpha2index(0, 1)
              /\ ptgCall.out.d = NormalizeDist(ptgCall.arg.x * 1000)

\* the zero offset asked of a forward PTG: sign(0) = sign(K), exact
C24_Witness ==
    /\ IsPtgCall("inverseMap_WS2TP", "DiffDrive_C")
    /\ ptgCall.ptg.K = 1
    /\ ptgCall.arg.x = 0
    /\ ptgCall.arg.y = 0
    /\ ptgCall.ok
    /\ ptgCall.out.d = 0

\* C29: DiffDrive_C::inverseMap_WS2TP returns d >= 0 and an alpha index k
\* with 0 <= k < alphaCount for every (x, y) and both signs of K, the
\* straight line y = 0 with x < 0 and K = -1 included.
C29_DistanceNeverNegative ==
    IsPtgCall("inverseMap_WS2TP", "DiffDrive_C") =>
        /\ ptgCall.out.d >= 0
        /\ ptgCall.out.k >= 0
        /\ ptgCall.out.k < PTGCfg.m_alphaValuesCount

\* C27: the HolonomicBlend path distance at a time t >= T_ramp is the
\* ramp's arc length plus (t - T_ramp) * |vf|, vf the value of expr_V, in
\* getPathDist, and getPathStepForDist inverts the same law.
C27_PostRampSpeedIsVf ==
    /\ (/\ IsPtgCall("getPathDist", "HolonomicBlend")
        /\ PATH_TIME_STEP * ptgCall.arg.step >= T_ramp_max)
       => ptgCall.out.d =
            calc_trans_distance_t_below_Tramp(
                Abs(ptgCall.ptg.expr_V), ptgCall.arg.vi, T_ramp_max)
            + (PATH_TIME_STEP * ptgCall.arg.step - T_ramp_max)
              * Abs(ptgCall.ptg.expr_V)
    /\ (/\ IsPtgCall("getPathStepForDist", "HolonomicBlend")
        /\ ptgCall.arg.dist * 10000 >=
              calc_trans_distance_t_below_Tramp(
                  Abs(ptgCall.ptg.expr_V), ptgCall.arg.vi, T_ramp_max))
       => /\ ptgCall.ok
          /\ ptgCall.out.d =
                RoundDiv(T_ramp_max
                    + (ptgCall.arg.dist * 10000
                       - calc_trans_distance_t_below_Tramp(
                            Abs(ptgCall.ptg.expr_V), ptgCall.arg.vi,
                            T_ramp_max))
                      \div Abs(ptgCall.ptg.expr_V),
                    PATH_TIME_STEP)

\* C28: when the Newton loop of HolonomicBlend::getPathStepForDist ends
\* without |D(t) - d| < 1e-3, the function returns false: it never returns
\* a step taken from an iterate that has not converged.
C28_NonConvergedStepFails ==
    (IsPtgCall("getPathStepForDist", "HolonomicBlend")
        /\ ~ptgCall.out.converged)
    => ~ptgCall.ok

----------------------------------------------------------------------------
(* tp_obstacles_single_path on its own: one call, for a PTG, a path k and  *)
(* a list of obstacle points in the frame of the node.                     *)

\* the longest obstacle list
MaxObs == 2

\* lists of obstacle points, in m: on the paths, beside them and behind the
\* robot
ObstacleLists ==
    UNION {[1..n -> {[x |-> a, y |-> b] : a \in {-1, 1, 2, 4}, b \in {0, 1}}] :
              n \in 0..MaxObs}

\* the PTGs with their dynamic state
PTGsWithDynState ==
    {DiffDrive_C(1), DiffDrive_C(-1)}
        \cup {HolonomicBlendAt(v, vi) :
                v \in {HolonomicBlend_V_MAX, HolonomicBlend_V_MAX \div 2},
                vi \in {0, HolonomicBlend_V_MAX \div 2}}

QueryTpObstacles ==
    /\ tpObs.ptg.kind = "none"
    /\ \E ptg \in PTGsWithDynState, k \in 0..(PTGCfg.m_alphaValuesCount - 1),
          obstacles \in ObstacleLists :
          tpObs' = [ptg |-> ptg, k |-> k, obstacles |-> obstacles,
                    out |-> tp_obstacles_single_path(k, obstacles, ptg)]
    /\ UNCHANGED <<planVars, ptgCall, interp, newton>>

SpecTpObs == InitCalls /\ [][QueryTpObstacles]_vars

\* the points of list at the indices in S, in the order of the list
RECURSIVE PointsAt(_, _, _)
PointsAt(list, S, i) ==
    IF i > Len(list) THEN <<>>
    ELSE IF i \in S THEN <<list[i]>> \o PointsAt(list, S, i + 1)
    ELSE PointsAt(list, S, i + 1)

\* C22: tp_obstacles_single_path starts from the value of
\* initTPObstacleSingle, the reference distance, and no update raises the
\* running value: the result for no obstacle is the reference distance, no
\* result exceeds it, the result for a set of points is never larger than
\* for a subset of it, and it does not depend on the order of the points.
C22_ObstacleDistanceOnlyLowers ==
    tpObs.ptg.kind # "none" =>
        /\ tpObs.out <= PTGCfg.refDistance
        /\ tpObs.obstacles = <<>> => tpObs.out = PTGCfg.refDistance
        /\ \A S \in SUBSET DOMAIN tpObs.obstacles :
              /\ tp_obstacles_single_path(tpObs.k,
                    PointsAt(tpObs.obstacles, S, 1), tpObs.ptg) >= tpObs.out
              /\ \A T \in SUBSET S :
                    tp_obstacles_single_path(tpObs.k,
                        PointsAt(tpObs.obstacles, T, 1), tpObs.ptg)
                    >= tp_obstacles_single_path(tpObs.k,
                        PointsAt(tpObs.obstacles, S, 1), tpObs.ptg)
        /\ \A p \in Permutations(DOMAIN tpObs.obstacles) :
              tp_obstacles_single_path(tpObs.k,
                  [i \in DOMAIN tpObs.obstacles |-> tpObs.obstacles[p[i]]],
                  tpObs.ptg) = tpObs.out

\* two obstacles on the path of a HolonomicBlend PTG, the far one first: the
\* near one lowers the distance left by the far one
C22_Witness ==
    /\ tpObs.ptg.kind = "HolonomicBlend"
    /\ Len(tpObs.obstacles) = 2
    /\ tpObs.out < tp_obstacles_single_path(tpObs.k,
                        <<tpObs.obstacles[1]>>, tpObs.ptg)
    /\ tp_obstacles_single_path(tpObs.k, <<tpObs.obstacles[1]>>, tpObs.ptg)
          < PTGCfg.refDistance

----------------------------------------------------------------------------
(* The Newton iteration of HolonomicBlend::inverseMap_WS2TP_with_Tramp,    *)
(* computed in fixed point: times in 1e-6 s, speeds in 1e-6 m/s, lengths   *)
(* in 1e-6 m.  The 4x4 system J * q_incr = r is solved by elimination: its *)
(* last row gives the increment of T_ramp (the increment of t plus r[3]    *)
(* under stop-at-target, 0 otherwise, where the row is [0 0 0 1]), rows 0  *)
(* and 1 give the increments of vxf and vyf from that of t, and row 2 then *)
(* gives the increment of t.                                               *)

\* fixed-point one
NewtonScale == 1000000

\* `iters < 25`
NewtonMaxIters == 25

\* err_threshold = 1e-3
err_threshold == NewtonScale \div 1000

\* the digit base for a long multiplication modulo c: (2 B - 1) c < 2^31
MulDivBase(c) ==
    IF c < 1048576 THEN 1024
    ELSE IF c < 16777216 THEN 64
    ELSE IF c < 134217728 THEN 8
    ELSE 2

\* <<quotient, remainder>> of a * b by c for 0 <= a < c and b >= 0, by the
\* digits of b in base B, without an intermediate beyond 2^31
RECURSIVE MulDivMod(_, _, _, _)
MulDivMod(a, b, c, B) ==
    LET Carry(q2, r2) == <<q2 + r2 \div c, r2 % c>>
        Step(h) == Carry(B * h[1], B * h[2] + (b % B) * a)
    IN  IF b = 0 THEN <<0, 0>>
        ELSE Step(MulDivMod(a, b \div B, c, B))

\* a * b / c, rounded towards zero
MulDiv(a, b, c) ==
    sign(a) * sign(b) * sign(c)
        * ((Abs(a) \div Abs(c)) * Abs(b)
           + MulDivMod(Abs(a) % Abs(c), Abs(b), Abs(c),
                       MulDivBase(Abs(c)))[1])

FxMul(a, b) == MulDiv(a, b, NewtonScale)

FxDiv(a, b) == MulDiv(a, NewtonScale, b)

FxHalf(a) == MulDiv(a, 1, 2)

\* sqrt(x * x + y * y), to 1e-4 m
FxNorm(x, y) ==
    100 * ISqrt((Abs(x) \div 100) * (Abs(x) \div 100)
                + (Abs(y) \div 100) * (Abs(y) \div 100))

\* a HolonomicBlend PTG with its parameter V_MAX, the value of expr_V and its
\* dynamic state curVelLocal = (vxi, vyi)
HolonomicBlendWith(V_MAX, expr_V, vxi, vyi) ==
    [kind |-> "HolonomicBlend", K |-> 0, V_MAX |-> V_MAX, expr_V |-> expr_V,
     vxi |-> vxi, vyi |-> vyi]

\* REL_SPEED_TO_CONSIDER_REACH_AND_STOP = 0.10 * 1.05;
\* stopAtTarget = V_MAXsq < square(REL_SPEED_TO_CONSIDER_REACH_AND_STOP),
\* V_MAXsq the square of |expr_V|
stopAtTarget(ptg) == Abs(ptg.expr_V) * 1000 < 105 * NewtonScale

\* the initial value of q = [t vxf vyf T_r]
NewtonInitial(ptg, x, y) ==
    LET Of(n) == [t |-> MulDiv(T_ramp_max * 100, 11, 10),
                  vxf |-> MulDiv(ptg.V_MAX, x, n),
                  vyf |-> MulDiv(ptg.V_MAX, y, n),
                  T |-> T_ramp_max * 100]
    IN  Of(FxNorm(x, y))

\* the residual r at q
NewtonResidual(ptg, x, y, q) ==
    IF q.t >= q.T
    THEN <<FxHalf(FxMul(q.T, ptg.vxi + q.vxf)) + FxMul(q.t - q.T, q.vxf) - x,
           FxHalf(FxMul(q.T, ptg.vyi + q.vyf)) + FxMul(q.t - q.T, q.vyf) - y,
           FxMul(q.vxf, q.vxf) + FxMul(q.vyf, q.vyf)
               - FxMul(Abs(ptg.expr_V), Abs(ptg.expr_V)),
           IF stopAtTarget(ptg) THEN q.T - q.t ELSE 0>>
    ELSE <<FxMul(ptg.vxi, q.t)
               + FxMul(FxDiv(FxMul(q.t, q.t), 2 * q.T), q.vxf - ptg.vxi) - x,
           FxMul(ptg.vyi, q.t)
               + FxMul(FxDiv(FxMul(q.t, q.t), 2 * q.T), q.vyf - ptg.vyi) - y,
           FxMul(q.vxf, q.vxf) + FxMul(q.vyf, q.vyf)
               - FxMul(Abs(ptg.expr_V), Abs(ptg.expr_V)),
           IF stopAtTarget(ptg) THEN q.T - q.t ELSE 0>>

\* r.norm() < err_threshold
NewtonSmall(r) ==
    /\ \A i \in 1..4 : Abs(r[i]) < err_threshold
    /\ r[1] * r[1] + r[2] * r[2] + r[3] * r[3] + r[4] * r[4]
          < err_threshold * err_threshold

\* the entries of the Jacobian J at q that are not constants; m is
\* J(0, 1) = J(1, 2)
NewtonJacobian(ptg, q) ==
    LET Below(m) ==
            [J00 |-> ptg.vxi + FxMul(FxDiv(q.t, q.T), q.vxf - ptg.vxi),
             J10 |-> ptg.vyi + FxMul(FxDiv(q.t, q.T), q.vyf - ptg.vyi),
             m |-> m,
             J03 |-> IF stopAtTarget(ptg)
                     THEN -FxMul(m, q.vxf - ptg.vxi) ELSE 0,
             J13 |-> IF stopAtTarget(ptg)
                     THEN -FxMul(m, q.vyf - ptg.vyi) ELSE 0]
    IN  IF q.t >= q.T
        THEN [J00 |-> q.vxf, J10 |-> q.vyf, m |-> FxHalf(q.T) + q.t,
              J03 |-> IF stopAtTarget(ptg)
                      THEN FxHalf(ptg.vxi - q.vxf) ELSE 0,
              J13 |-> IF stopAtTarget(ptg)
                      THEN FxHalf(ptg.vyi - q.vyf) ELSE 0]
        ELSE Below(FxDiv(FxMul(q.t, q.t), 2 * q.T))

\* q -= J.lu_solve(r); q[3] = T_ramp_max first when stop-at-target is off
NewtonUpdate(ptg, q, r) ==
    LET By(J, R0, R1, dt) ==
            [t |-> q.t - dt,
             vxf |-> q.vxf - FxDiv(R0 - FxMul(J.J00 + J.J03, dt), J.m),
             vyf |-> q.vyf - FxDiv(R1 - FxMul(J.J10 + J.J13, dt), J.m),
             T |-> IF stopAtTarget(ptg) THEN q.T - (dt + r[4])
                   ELSE T_ramp_max * 100]
        From(J, R0, R1) ==
            By(J, R0, R1,
               FxDiv(2 * FxMul(q.vxf, R0) + 2 * FxMul(q.vyf, R1)
                        - FxMul(J.m, r[3]),
                     2 * (FxMul(q.vxf, J.J00 + J.J03)
                          + FxMul(q.vyf, J.J10 + J.J13))))
        With(J) ==
            From(J, r[1] - FxMul(J.J03, r[4]), r[2] - FxMul(J.J13, r[4]))
    IN  With(NewtonJacobian(ptg, q))

\* for (iters = 0; !sol_found && iters < 25; iters++): the residual is taken
\* at q, q is updated, and sol_found is the test of the residual taken
RECURSIVE NewtonLoop(_, _, _, _, _, _)
NewtonLoop(ptg, x, y, q, iters, sol_found) ==
    LET Iterate(r) ==
            NewtonLoop(ptg, x, y, NewtonUpdate(ptg, q, r), iters + 1,
                       NewtonSmall(r))
    IN  IF sol_found \/ iters >= NewtonMaxIters
        THEN [sol_found |-> sol_found, q |-> q, iters |-> iters]
        ELSE Iterate(NewtonResidual(ptg, x, y, q))

\* HolonomicBlend::inverseMap_WS2TP_with_Tramp(x, y, out_k, out_d,
\* out_T_ramp) up to the choice between success and failure:
\* ASSERT_(x != 0 || y != 0), the loop, and
\* `if (sol_found && q[0] >= .0) { ... out_T_ramp = q[3]; return true; }`
HolonomicBlend_inverseMap_newton(ptg, x, y) ==
    LET Outcome(l) ==
            [throws |-> FALSE, ok |-> l.sol_found /\ l.q.t >= 0, q |-> l.q,
             iters |-> l.iters, stopAtTarget |-> stopAtTarget(ptg)]
    IN  IF x = 0 /\ y = 0
        THEN [throws |-> TRUE, ok |-> FALSE,
              q |-> [t |-> 0, vxf |-> 0, vyf |-> 0, T |-> 0],
              iters |-> 0, stopAtTarget |-> stopAtTarget(ptg)]
        ELSE Outcome(NewtonLoop(ptg, x, y, NewtonInitial(ptg, x, y), 0,
                                FALSE))

----------------------------------------------------------------------------
(* inverseMap_WS2TP_with_Tramp on its own: one call, for a PTG with its    *)
(* V_MAX, expr_V and dynamic state, and a target (x, y).                   *)

\* <<V_MAX, value of expr_V>>: a slow PTG with the default expr_V = V_MAX,
\* the default V_MAX, a fast PTG with a slow expression, a fast PTG; each with
\* four values of curVelLocal
NewtonPTGs ==
    {HolonomicBlendWith(V[1], V[2], vi[1], vi[2]) :
        V \in {<<80000, 80000>>, <<1000000, 1000000>>, <<2000000, 150000>>,
               <<2000000, 2000000>>},
        vi \in {<<0, 0>>, <<100000, 0>>, <<50000, 0>>, <<50000, 50000>>}}

\* targets ahead of the robot, behind it, and the robot's own position
NewtonTargets ==
    {<<x, y>> : x \in {150000, 200000, 250000}, y \in {-50000, 0, 50000}}
        \cup {<<-x, 0>> : x \in {150000, 200000, 250000}}
        \cup {<<-100000, 150000>>, <<0, 0>>}

QueryInverseMapNewton ==
    /\ newton.fn = "none"
    /\ \E ptg \in NewtonPTGs, target \in NewtonTargets :
          newton' = [fn |-> "inverseMap_WS2TP_with_Tramp", ptg |-> ptg,
                     x |-> target[1], y |-> target[2],
                     out |-> HolonomicBlend_inverseMap_newton(
                                ptg, target[1], target[2])]
    /\ UNCHANGED <<planVars, ptgCall, interp, tpObs>>

SpecNewton == InitCalls /\ [][QueryInverseMapNewton]_vars

\* inverseMap_WS2TP_with_Tramp has returned
NewtonReturned == newton.fn # "none" /\ ~newton.out.throws

\* C23: inverseMap_WS2TP_with_Tramp runs at most 25 Newton iterations, and
\* it returns success only if the norm of the residual at the solution q it
\* returns is below 1e-3 and t >= 0.
C23_SuccessOnlyOnSmallResidual ==
    NewtonReturned =>
        /\ newton.out.iters <= 25
        /\ newton.out.ok =>
              /\ newton.out.q.t >= 0
              /\ NewtonSmall(NewtonResidual(newton.ptg, newton.x, newton.y,
                                            newton.out.q))

\* C26: stop-at-target is active exactly when |V(alpha)| < 0.105 * V_MAX,
\* whatever V_MAX > 0 is, and when it is not active the T_ramp returned is
\* T_ramp_max.
C26_StopAtTargetRelativeToVmax ==
    NewtonReturned =>
        /\ newton.out.stopAtTarget
              <=> Abs(newton.ptg.expr_V) * 1000 < 105 * newton.ptg.V_MAX
        /\ (~newton.out.stopAtTarget /\ newton.out.ok)
              => newton.out.q.T = T_ramp_max * 100

====
